---- MODULE Spec2Model ----
(***************************************************************************)
(* State-machine model of the gdeltProject dashboard frontend:             *)
(*   - the data-access module (services/dataService.ts) with its           *)
(*     module-level caches,                                                *)
(*   - the trend-comparison service (services/trendComparison.ts),         *)
(*   - the page components TrendComparison, SourceAnalysis, CountryDetail, *)
(*   - the pagination arithmetic of SourceAnalysis and CountryDetail.      *)
(*                                                                         *)
(* Time is in milliseconds, as Date.now() counts it.  An asynchronous      *)
(* function is split where it awaits the network: the part up to the       *)
(* fetch is one action, the part from the response to the end of the       *)
(* handler another.  A React handler runs atomically on the values of the  *)
(* render that created it; its setState calls take effect in order.        *)
(***************************************************************************)
EXTENDS Integers, Sequences, FiniteSets, TLC

VARIABLES
    now,                    \* Date.now()
    driver,                 \* what drives the module: a mounted page, or a direct caller of one service function
    pending,                \* network requests in flight, in the order they were issued
    issued,                 \* how many requests have gone to the network
    cachedGlobalStats,      \* dataService.ts module state
    lastFetchTime,
    countryCache,
    countryTimeStatsCache,
    cachedTopCountries,
    last,                   \* the most recent service-function event (call answered from cache, request issued, promise settled)
    lastSuccessAt,          \* history: when the last successful global-stats fetch completed (<<>>: none yet)
    tc,                    \* TrendComparison component state
    sa,                     \* SourceAnalysis component state
    cd,                     \* CountryDetail component state
    pg,                     \* a paginated list under inspection: items, page size, page
    ix,                     \* Index page state, with the three view components it mounts
    localStorage,           \* window.localStorage: the entries under the view components' keys
    dd,                     \* a response under de-duplication: what the step was handed and what it left
    wm                      \* WorldMap component: the globe, its spin interval and its timeouts

vars == <<now, driver, pending, issued, cachedGlobalStats, lastFetchTime, countryCache,
          countryTimeStatsCache, cachedTopCountries, last, lastSuccessAt, tc, sa, cd, pg,
          ix, localStorage, dd, wm>>

serviceVars == <<cachedGlobalStats, lastFetchTime, countryCache,
                 countryTimeStatsCache, cachedTopCountries>>

-----------------------------------------------------------------------------
(* Bounds of the model *)

MaxPending == 2     \* requests in flight at once
MaxRequests == 2    \* requests a direct caller issues in a session
MaxDay == 2         \* dates a date picker offers: local midnights of day 0 .. MaxDay
MaxPast == 1        \* days before the day of the session that a date picker offers
MaxStop == 2        \* instants the clock visits after the start: Stop(0) .. Stop(MaxStop)
MaxItems == 9       \* groups in the longest response of the sources endpoints
MaxArticles == 4    \* longest article list the server sends
MaxLength == 20     \* longest list laid out in pages on its own
MaxFetches == 2     \* requests the CountryDetail page issues in a session
MaxCountries == 3   \* countries in the longest list the global-stats endpoint sends
MaxLoads == 2       \* times the Index page is opened in a session
MaxGroups == 2      \* groups of a response handed to the de-duplication on its own
MaxRecent == 2      \* recent articles of one such group
MaxTimers == 2      \* timeouts of the WorldMap pending at once
MaxLng == 3         \* positions of the globe's centre that are told apart: 0 .. MaxLng

(* Program constants *)

CACHE_DURATION == 5 * 60 * 1000
COUNTRY_CACHE_DURATION == 5 * 60 * 1000
ITEMS_PER_PAGE == 8
ARTICLES_PER_PAGE == 3
SPIN_INTERVAL == 300        \* ms between two calls of spinGlobe
RESUME_DELAY == 3000        \* ms from the end of an interaction to `userInteracting = false`
SPIN_ZOOM == 3              \* spinGlobe turns the globe below this zoom

MsPerDay == 24 * 60 * 60 * 1000

-----------------------------------------------------------------------------
(* Dates.  A Date is its instant (ms since the epoch); an optional Date is *)
(* <<>> (undefined) or <<t>>.                                              *)

NoDate == <<>>
DateOf(t) == <<t>>
IsSet(d) == d # <<>>
TimeOf(d) == d[1]

Midnight(day) == day * MsPerDay
Today == MaxPast                  \* the day the session starts in
T0 == Midnight(Today)           \* the session starts at local midnight, the instant a picker gives for today

\* The instants the clock visits: the start, then around each multiple of the cache duration.
Stop(i) == T0 + ((i + 1) \div 2) * CACHE_DURATION - (i % 2)
ClockStops == {Stop(i) : i \in 0..MaxStop}

PickableDates == {DateOf(Midnight(d)) : d \in 0..MaxDay}
OptionalDates == {NoDate} \cup PickableDates

Digit(n) ==
    CASE n = 0 -> "0" [] n = 1 -> "1" [] n = 2 -> "2" [] n = 3 -> "3" [] n = 4 -> "4"
      [] n = 5 -> "5" [] n = 6 -> "6" [] n = 7 -> "7" [] n = 8 -> "8" [] n = 9 -> "9"

Pad2(n) == Digit((n \div 10) % 10) \o Digit(n % 10)
Pad3(n) == Digit((n \div 100) % 10) \o Pad2(n % 100)

\* Date.prototype.toISOString for an instant of January 1970 (0 <= t < 31 days):
\* "1970-01-DDTHH:mm:ss.sssZ" in UTC.
toISOString(t) ==
    LET day  == t \div MsPerDay
        rest == t % MsPerDay
        hh   == rest \div 3600000
        mm   == (rest % 3600000) \div 60000
        ss   == (rest % 60000) \div 1000
        ms   == rest % 1000
    IN "1970-01-" \o Pad2(day + 1) \o "T" \o Pad2(hh) \o ":" \o Pad2(mm) \o ":"
         \o Pad2(ss) \o "." \o Pad3(ms) \o "Z"

\* `date?.toISOString() || ''`
IsoOrEmpty(d) == IF IsSet(d) THEN toISOString(TimeOf(d)) ELSE ""

-----------------------------------------------------------------------------
(* JSON values.  Every value is a record with a type tag t.                *)

(* A value parsed from a response also records which response it is: the   *)
(* request it answers and the time it was served (history).                *)

NoArgs == [iso2 |-> "", startDate |-> NoDate, endDate |-> NoDate]
Served(args, t) == [request |-> args, servedAt |-> t]

Undefined == [t |-> "undefined"]
JsonNull(from) == [t |-> "null", request |-> from.request, servedAt |-> from.servedAt]
EmptyObject(from) == [t |-> "emptyObject", request |-> from.request, servedAt |-> from.servedAt]
Null == JsonNull(Served(NoArgs, 0))                   \* a module variable initialised to null
Array(s) == [t |-> "array", items |-> s]
EmptyArray == Array(<<>>)

\* JavaScript truthiness of a value held in a cache slot.
Truthy(v) == v.t \notin {"undefined", "null"}

(* What a fetch can come to.  A network error rejects the fetch; otherwise *)
(* the response has a status and a body: "invalid" is no JSON (json()      *)
(* rejects), "null" is the JSON null, "empty" the JSON {}, "ok" the        *)
(* well-formed payload of the endpoint.                                    *)
NetworkError == [kind |-> "networkError", status |-> 0, body |-> "invalid"]
HttpResponse(s, b) == [kind |-> "http", status |-> s, body |-> b]
Bodies == {"invalid", "null", "empty", "ok"}
Outcomes == {NetworkError} \cup {HttpResponse(200, b) : b \in Bodies}
               \cup {HttpResponse(s, "ok") : s \in {404, 500}}

ResponseOk(out) == out.kind = "http" /\ out.status = 200      \* fetch resolved and response.ok
JsonParses(out) == out.body # "invalid"

\* `await response.json()` of a body that parses; data is the endpoint's well-formed payload.
Parsed(out, data) ==
    CASE out.body = "null" -> JsonNull(data)
      [] out.body = "empty" -> EmptyObject(data)
      [] OTHER -> data

\* A property read of the value raises a TypeError.
IsNullish(v) == v.t \in {"undefined", "null"}

(* A request in flight: the service function that issued it, its           *)
(* arguments, and k, what the caller captured for its continuation. The    *)
(* date parameters of a request a page issues are the page's dates at the  *)
(* step that issues it; they are not carried along, as no response         *)
(* handling reads them.                                                    *)
Request(fn, args, k) == [fn |-> fn, args |-> args, k |-> k]
Direct == [who |-> "direct"]

RemoveAt(s, i) == SubSeq(s, 1, i - 1) \o SubSeq(s, i + 1, Len(s))

(* The result of the part of a service function that follows the fetch:    *)
(* the value its promise settles with, whether it settles by rejecting     *)
(* (threw), and whether the value went into the function's cache.          *)
Returned(v) == [value |-> v, threw |-> FALSE, stored |-> FALSE]
ReturnedAndStored(v) == [value |-> v, threw |-> FALSE, stored |-> TRUE]
Thrown == [value |-> Undefined, threw |-> TRUE, stored |-> FALSE]
ThrownError(message) ==
    [value |-> [t |-> "Error", message |-> message], threw |-> TRUE, stored |-> FALSE]

(* A failed request, by what came back: the fetch rejected, the status is  *)
(* not OK, the body is no JSON, or the body is JSON the function's         *)
(* transformation raises on (a property read of null; for getGlobalStats   *)
(* also `data.countries.map` of {}).                                       *)
Fails(fn, out) ==
    \/ ~ResponseOk(out)
    \/ ~JsonParses(out)
    \/ out.body \in {"null", "empty"} /\ fn \in {"getGlobalStats", "timeFrameComparison"}
    \/ out.body = "null" /\ fn \in {"getGroupedSources", "getSourceAnalysis"}

\* A successful fetch: the endpoint answered 200 with its well-formed body.
Successful(out) == ResponseOk(out) /\ out.body = "ok"

Event(fn, event, args, res, failed) ==
    [fn |-> fn, event |-> event, args |-> args, value |-> res.value,
     threw |-> res.threw, failed |-> failed, at |-> now]
NoEvent == [fn |-> "", event |-> "none", args |-> NoArgs, value |-> Undefined,
            threw |-> FALSE, failed |-> FALSE, at |-> 0]

-----------------------------------------------------------------------------
(* dataService.ts: getGlobalStats *)

countryContinents(code) ==
    CASE code = "US" -> "North America"
      [] code = "FR" -> "Europe"
      [] code = "DE" -> "Europe"
      [] code = "IL" -> "Asia"
      [] OTHER -> "Unknown"

\* The country lists the global-stats endpoint sends.
CountryLists ==
    { <<>>,
      << [code |-> "US", value |-> 5], [code |-> "FR", value |-> 3], [code |-> "XX", value |-> 2] >> }

\* The well-formed body of /api/v1/articles/global-stats as served at time t.
GlobalStatsPayloadsOf(lists, t) ==
    { Served(NoArgs, t) @@
      [t |-> "object", totalArticles |-> 10, countries |-> cs, averagePerCountry |-> 3]
        : cs \in lists }
GlobalStatsPayloads(t) == GlobalStatsPayloadsOf(CountryLists, t)

ZeroGlobalStats ==
    [t |-> "object", totalArticles |-> 0, topCountries |-> <<>>, continents |-> <<>>,
     averagePerCountry |-> 0]

\* data.countries.map(country => ({...country, id: country.code, iso2: country.code, value: country.value}))
TopCountriesOf(countries) ==
    [i \in DOMAIN countries |->
        [code |-> countries[i].code, id |-> countries[i].code,
         iso2 |-> countries[i].code, value |-> countries[i].value]]

IndexOfContinent(continents, name) ==
    IF \E i \in DOMAIN continents : continents[i].name = name
    THEN CHOOSE i \in DOMAIN continents : continents[i].name = name
    ELSE 0

\* Variant of the grouping below that leaves out a country whose code has no
\* entry in countryContinents.
RECURSIVE GroupByContinentDroppingUnknown(_, _)
GroupByContinentDroppingUnknown(countries, continents) ==
    IF countries = <<>> THEN continents
    ELSE LET country == Head(countries)
             name == countryContinents(country.code)
             at == IndexOfContinent(continents, name)
             withEntry == IF at = 0
                          THEN Append(continents, [name |-> name, totalArticles |-> 0, countries |-> <<>>])
                          ELSE continents
             j == IndexOfContinent(withEntry, name)
         IN IF name = "Unknown"
            THEN GroupByContinentDroppingUnknown(Tail(countries), continents)
            ELSE GroupByContinentDroppingUnknown(Tail(countries),
                    [withEntry EXCEPT ![j] =
                        [name |-> name,
                         totalArticles |-> @.totalArticles + country.value,
                         countries |-> Append(@.countries, country)]])

\* The forEach over topCountries filling continentMap, in insertion order.
RECURSIVE GroupByContinent(_, _)
GroupByContinent(countries, continents) ==
    IF countries = <<>> THEN continents
    ELSE LET country == Head(countries)
             name == countryContinents(country.code)
             at == IndexOfContinent(continents, name)
             withEntry == IF at = 0
                          THEN Append(continents, [name |-> name, totalArticles |-> 0, countries |-> <<>>])
                          ELSE continents
             j == IndexOfContinent(withEntry, name)
         IN GroupByContinent(Tail(countries),
                [withEntry EXCEPT ![j] =
                    [name |-> name,
                     totalArticles |-> @.totalArticles + country.value,
                     countries |-> Append(@.countries, country)]])

GlobalStatsFrom(data) ==
    LET top == TopCountriesOf(data.countries)
    IN [t |-> "object", totalArticles |-> data.totalArticles, topCountries |-> top,
        continents |-> GroupByContinent(top, <<>>),
        averagePerCountry |-> data.averagePerCountry, servedAt |-> data.servedAt]

\* Variant of the check below that still serves an entry exactly CACHE_DURATION old.
GlobalStatsCacheValidInclusive ==
    /\ Truthy(cachedGlobalStats)
    /\ IsSet(lastFetchTime) /\ TimeOf(lastFetchTime) # 0
    /\ now - TimeOf(lastFetchTime) <= CACHE_DURATION

\* `cachedGlobalStats && lastFetchTime && (Date.now() - lastFetchTime < CACHE_DURATION)`
GlobalStatsCacheValid ==
    /\ Truthy(cachedGlobalStats)
    /\ IsSet(lastFetchTime) /\ TimeOf(lastFetchTime) # 0
    /\ now - TimeOf(lastFetchTime) < CACHE_DURATION

\* Variant of the function below whose catch block rethrows.
GetGlobalStatsResultRethrowing(out, data) ==
    IF ~ResponseOk(out) \/ ~JsonParses(out) \/ Parsed(out, data).t # "object"
    THEN Thrown
    ELSE ReturnedAndStored(GlobalStatsFrom(data))

\* The try/catch of getGlobalStats, from the settled fetch on.
GetGlobalStatsResult(out, data) ==
    IF ~ResponseOk(out) \/ ~JsonParses(out) \/ Parsed(out, data).t # "object"
    THEN Returned(ZeroGlobalStats)
    ELSE ReturnedAndStored(GlobalStatsFrom(data))

StoreGlobalStats(res) ==
    /\ cachedGlobalStats' = IF res.stored THEN res.value ELSE cachedGlobalStats
    /\ lastFetchTime' = IF res.stored THEN DateOf(now) ELSE lastFetchTime

-----------------------------------------------------------------------------
(* dataService.ts: getCountryData *)

Iso2s == {"US", "FR"}

\* The well-formed body of /api/v1/articles/country/{iso2} as served at time t.
CountryPayloads(iso2, t) ==
    { Served([NoArgs EXCEPT !.iso2 = iso2], t) @@
      [t |-> "object", code |-> iso2, name |-> iso2, value |-> 7] }

\* `countryCache[iso2]`: undefined when the key is absent.
CountryCacheAt(iso2) ==
    IF iso2 \in DOMAIN countryCache THEN countryCache[iso2] ELSE Undefined

\* Variant of the check below that lets an entry expire after COUNTRY_CACHE_DURATION.
CountryCacheValidExpiring(iso2) ==
    /\ Truthy(CountryCacheAt(iso2))
    /\ now - CountryCacheAt(iso2).servedAt < COUNTRY_CACHE_DURATION

\* `if (countryCache[iso2])`
CountryCacheValid(iso2) == Truthy(CountryCacheAt(iso2))

\* Variant of the function below whose catch block stores what it returns.
GetCountryDataResultMemoizing(out, data) ==
    IF ~ResponseOk(out) THEN ReturnedAndStored(Undefined)
    ELSE IF ~JsonParses(out) THEN ReturnedAndStored(Undefined)
    ELSE ReturnedAndStored(Parsed(out, data))

\* The try/catch of getCountryData, from the settled fetch on.
GetCountryDataResult(out, data) ==
    IF ~ResponseOk(out) THEN Returned(Undefined)        \* 404: return undefined; else throw, caught
    ELSE IF ~JsonParses(out) THEN Returned(Undefined)
    ELSE ReturnedAndStored(Parsed(out, data))

StoreCountryData(iso2, res) ==
    countryCache' = IF res.stored THEN (iso2 :> res.value) @@ countryCache ELSE countryCache

-----------------------------------------------------------------------------
(* dataService.ts: getCountryTimeStats *)

\* An article of a response: its title, and its url, which tells apart two
\* articles of the same title.
Article(title, url) == [title |-> title, url |-> url]

UniqueList(n) == [i \in 1..n |-> Article(i, i)]                  \* n articles, titles 1..n
WithRepeats(n) == [i \in 1..n |-> Article((i + 1) \div 2, i)]    \* n articles, every title sent twice

ValidItem == [date |-> "1970-01-01", countIsNumber |-> TRUE, count |-> 2, tone |-> <<4>>]
NoToneItem == [date |-> "1970-01-02", countIsNumber |-> TRUE, count |-> 1, tone |-> <<>>]
InvalidItem == [date |-> "", countIsNumber |-> TRUE, count |-> 1, tone |-> <<4>>]

\* What the time-stats endpoint sends as articles and timelineData.
TimeStatsBodies ==
    { [articles |-> UniqueList(MaxArticles), timelineData |-> <<ValidItem>>],
      [articles |-> WithRepeats(MaxArticles), timelineData |-> <<InvalidItem, NoToneItem>>] }

\* The well-formed body of /api/v1/articles/country/{iso2}/time-stats for a
\* request, as served at time t; request records what it answers.
TimeStatsPayloads(args, t, bodies) ==
    { Served(args, t) @@
      [t |-> "object", articleCount |-> Len(b.articles), averageTone |-> 0,
       timelineData |-> b.timelineData, articles |-> b.articles] : b \in bodies }

ZeroCountryTimeStats ==
    [t |-> "object", articleCount |-> 0, averageTone |-> 0, timelineData |-> <<>>,
     articles |-> <<>>]

\* `${iso2}-${startDate?.toISOString() || ''}-${endDate?.toISOString() || ''}`
\* Variant of the key below that leaves the end date out.
CacheKeyWithoutEnd(iso2, startDate, endDate) ==
    iso2 \o "-" \o IsoOrEmpty(startDate)

\* `${iso2}-${startDate?.toISOString() || ''}-${endDate?.toISOString() || ''}`
CacheKey(iso2, startDate, endDate) ==
    iso2 \o "-" \o IsoOrEmpty(startDate) \o "-" \o IsoOrEmpty(endDate)

KeyOf(args) == CacheKey(args.iso2, args.startDate, args.endDate)

\* `cachedData && (Date.now() - cachedData.timestamp < COUNTRY_CACHE_DURATION)`
TimeStatsCacheValid(key) ==
    /\ key \in DOMAIN countryTimeStatsCache
    /\ now - countryTimeStatsCache[key].timestamp < COUNTRY_CACHE_DURATION

\* The try/catch of getCountryTimeStats, from the settled fetch on.
GetCountryTimeStatsResult(out, data) ==
    IF ~ResponseOk(out) \/ ~JsonParses(out)
    THEN Returned(ZeroCountryTimeStats)
    ELSE ReturnedAndStored(Parsed(out, data))

\* The entry keeps, next to data and timestamp, sent: the value as the server
\* sent it (history; data is the same object the callers are handed).
CacheEntry(value) == [data |-> value, timestamp |-> now, sent |-> value]

StoreCountryTimeStats(key, res) ==
    countryTimeStatsCache' =
        IF res.stored THEN (key :> CacheEntry(res.value)) @@ countryTimeStatsCache
        ELSE countryTimeStatsCache

-----------------------------------------------------------------------------
(* dataService.ts: getGroupedSources, getSourceAnalysis, getTopCountries,  *)
(* getDailyAverages                                                        *)

\* Text the program searches in is a sequence of characters.
NameOf(i) == IF i % 2 = 1 THEN <<"A", "l", Digit(i % 10)>> ELSE <<"B", "o", Digit(i % 10)>>

\* A group of the grouped-sources response (GroupedSourceData) and an item of
\* the source-analysis response (SourceAnalysisData): what it is called and
\* its recent articles.
Group(i, articles) == [name |-> NameOf(i), recentArticles |-> articles]
AnalysisItem(i, articles) ==
    [source |-> IF i = 1 THEN <<>> ELSE NameOf(i), country |-> <<"F", "R">>,
     recentArticles |-> articles]

\* The lists the two source endpoints send: n entries; with shared set, every
\* entry carries the same article title.
GroupList(n, shared) ==
    [i \in 1..n |-> Group(i, <<Article(IF shared THEN 1 ELSE i, i)>>)]
GroupLists == {GroupList(n, sh) : n \in {0, 1, MaxItems}, sh \in BOOLEAN}
AnalysisList(n, shared) ==
    [i \in 1..n |-> AnalysisItem(i, <<Article(IF shared THEN 1 ELSE i, i)>>)]
AnalysisLists == {AnalysisList(n, sh) : n \in {0, 1, MaxItems}, sh \in BOOLEAN}

GroupedPayloads(args, t) ==
    {Served(args, t) @@ [t |-> "object", groups |-> Array(g)] : g \in GroupLists}
AnalysisPayloads(args, t) ==
    {Served(args, t) @@ [t |-> "object", sources |-> Array(g)] : g \in AnalysisLists}

\* The try/catch of getGroupedSources: `return data.groups`.
GetGroupedSourcesResult(out, data) ==
    IF ~ResponseOk(out) \/ ~JsonParses(out) \/ IsNullish(Parsed(out, data))
    THEN Returned(EmptyArray)
    ELSE IF Parsed(out, data).t = "emptyObject" THEN Returned(Undefined)
    ELSE Returned(data.groups)

\* The try/catch of getSourceAnalysis: `return data.sources || []`.
GetSourceAnalysisResult(out, data) ==
    IF ~ResponseOk(out) \/ ~JsonParses(out) \/ IsNullish(Parsed(out, data))
    THEN Returned(EmptyArray)
    ELSE IF Parsed(out, data).t = "emptyObject" THEN Returned(EmptyArray)
    ELSE Returned(data.sources)

TopCountriesPayloads(t) ==
    {Served(NoArgs, t) @@ [t |-> "array", items |-> cs] : cs \in CountryLists}

\* `if (cachedTopCountries)`
TopCountriesCacheValid == Truthy(cachedTopCountries)

\* The try/catch of getTopCountries.
GetTopCountriesResult(out, data) ==
    IF ~ResponseOk(out) \/ ~JsonParses(out)
    THEN Returned(EmptyArray)
    ELSE ReturnedAndStored(Parsed(out, data))

StoreTopCountries(res) ==
    cachedTopCountries' = IF res.stored THEN res.value ELSE cachedTopCountries

DailyAveragesPayloads(t) ==
    {Served(NoArgs, t) @@ [t |-> "object", highest |-> <<1>>, lowest |-> <<2>>]}
EmptyDailyAverages == [t |-> "object", highest |-> <<>>, lowest |-> <<>>]

\* The try/catch of getDailyAverages.
GetDailyAveragesResult(out, data) ==
    IF ~ResponseOk(out) \/ ~JsonParses(out)
    THEN Returned(EmptyDailyAverages)
    ELSE Returned(Parsed(out, data))

-----------------------------------------------------------------------------
(* The clock, and the service functions called directly (driver is the     *)
(* name of the function called).                                           *)

pageVars == <<tc, sa, cd, pg, ix, localStorage, dd, wm>>

Tick ==
    /\ \E t \in ClockStops : t > now /\ now' = t
    /\ UNCHANGED <<driver, pending, issued, serviceVars, last, lastSuccessAt, pageVars>>

\* fetch(...): the request goes on the wire.
Issue(req) ==
    /\ Len(pending) < MaxPending
    /\ issued < MaxRequests
    /\ pending' = Append(pending, req)
    /\ issued' = issued + 1

Hit(fn, args, value) == Event(fn, "hit", args, Returned(value), FALSE)
Requested(fn, args) == Event(fn, "request", args, Returned(Undefined), FALSE)
Settled(fn, args, res, out) == Event(fn, "settled", args, res, Fails(fn, out))

CallGetGlobalStats ==
    /\ driver = "getGlobalStats"
    /\ IF GlobalStatsCacheValid
       THEN /\ last' = Hit("getGlobalStats", NoArgs, cachedGlobalStats)
            /\ UNCHANGED <<pending, issued>>
       ELSE /\ Issue(Request("getGlobalStats", NoArgs, Direct))
            /\ last' = Requested("getGlobalStats", NoArgs)
    /\ UNCHANGED <<now, driver, serviceVars, lastSuccessAt, pageVars>>

SettleGetGlobalStatsWith(lists) ==
    /\ \E i \in DOMAIN pending, out \in Outcomes, data \in GlobalStatsPayloadsOf(lists, now) :
          /\ pending[i].fn = "getGlobalStats" /\ pending[i].k = Direct
          /\ LET res == GetGlobalStatsResult(out, data)
             IN /\ StoreGlobalStats(res)
                /\ last' = Settled("getGlobalStats", NoArgs, res, out)
          /\ lastSuccessAt' = IF Successful(out) THEN DateOf(now) ELSE lastSuccessAt
          /\ pending' = RemoveAt(pending, i)
    /\ UNCHANGED <<now, driver, issued, countryCache, countryTimeStatsCache,
                   cachedTopCountries, pageVars>>

SettleGetGlobalStats == SettleGetGlobalStatsWith(CountryLists)

CallGetCountryData ==
    /\ driver = "getCountryData"
    /\ \E iso2 \in Iso2s :
          LET args == [NoArgs EXCEPT !.iso2 = iso2]
          IN IF CountryCacheValid(iso2)
             THEN /\ last' = Hit("getCountryData", args, CountryCacheAt(iso2))
                  /\ UNCHANGED <<pending, issued>>
             ELSE /\ Issue(Request("getCountryData", args, Direct))
                  /\ last' = Requested("getCountryData", args)
    /\ UNCHANGED <<now, driver, serviceVars, lastSuccessAt, pageVars>>

SettleGetCountryData ==
    /\ \E i \in DOMAIN pending, out \in Outcomes :
          /\ pending[i].fn = "getCountryData" /\ pending[i].k = Direct
          /\ \E data \in CountryPayloads(pending[i].args.iso2, now) :
                LET res == GetCountryDataResult(out, data)
                IN /\ StoreCountryData(pending[i].args.iso2, res)
                   /\ last' = Settled("getCountryData", pending[i].args, res, out)
          /\ pending' = RemoveAt(pending, i)
    /\ UNCHANGED <<now, driver, issued, cachedGlobalStats, lastFetchTime,
                   countryTimeStatsCache, cachedTopCountries, lastSuccessAt, pageVars>>

\* What a direct caller passes to getCountryTimeStats: triples that differ
\* in the country only, in the start date only, in the end date only, and in
\* which of the two dates carries the same instant.
DirectTriples ==
    { [iso2 |-> "US", startDate |-> NoDate, endDate |-> NoDate],
      [iso2 |-> "FR", startDate |-> NoDate, endDate |-> NoDate],
      [iso2 |-> "US", startDate |-> DateOf(Midnight(0)), endDate |-> NoDate],
      [iso2 |-> "US", startDate |-> DateOf(Midnight(0)), endDate |-> DateOf(Midnight(Today))],
      [iso2 |-> "US", startDate |-> NoDate, endDate |-> DateOf(Midnight(0))] }
DirectBodies == {[articles |-> UniqueList(1), timelineData |-> <<ValidItem>>]}

CallGetCountryTimeStats ==
    /\ driver = "getCountryTimeStats"
    /\ \E args \in DirectTriples :
             IF TimeStatsCacheValid(KeyOf(args))
             THEN /\ last' = Hit("getCountryTimeStats", args,
                                 countryTimeStatsCache[KeyOf(args)].data)
                  /\ UNCHANGED <<pending, issued>>
             ELSE /\ Issue(Request("getCountryTimeStats", args, Direct))
                  /\ last' = Requested("getCountryTimeStats", args)
    /\ UNCHANGED <<now, driver, serviceVars, lastSuccessAt, pageVars>>

SettleGetCountryTimeStats ==
    /\ \E i \in DOMAIN pending, out \in Outcomes :
          /\ pending[i].fn = "getCountryTimeStats" /\ pending[i].k = Direct
          /\ \E data \in TimeStatsPayloads(pending[i].args, now, DirectBodies) :
                LET res == GetCountryTimeStatsResult(out, data)
                IN /\ StoreCountryTimeStats(KeyOf(pending[i].args), res)
                   /\ last' = Settled("getCountryTimeStats", pending[i].args, res, out)
          /\ pending' = RemoveAt(pending, i)
    /\ UNCHANGED <<now, driver, issued, cachedGlobalStats, lastFetchTime,
                   countryCache, cachedTopCountries, lastSuccessAt, pageVars>>

CallGetTopCountries ==
    /\ driver = "getTopCountries"
    /\ IF TopCountriesCacheValid
       THEN /\ last' = Hit("getTopCountries", NoArgs, cachedTopCountries)
            /\ UNCHANGED <<pending, issued>>
       ELSE /\ Issue(Request("getTopCountries", NoArgs, Direct))
            /\ last' = Requested("getTopCountries", NoArgs)
    /\ UNCHANGED <<now, driver, serviceVars, lastSuccessAt, pageVars>>

SettleGetTopCountries ==
    /\ \E i \in DOMAIN pending, out \in Outcomes, data \in TopCountriesPayloads(now) :
          /\ pending[i].fn = "getTopCountries" /\ pending[i].k = Direct
          /\ LET res == GetTopCountriesResult(out, data)
             IN /\ StoreTopCountries(res)
                /\ last' = Settled("getTopCountries", NoArgs, res, out)
          /\ pending' = RemoveAt(pending, i)
    /\ UNCHANGED <<now, driver, issued, cachedGlobalStats, lastFetchTime, countryCache,
                   countryTimeStatsCache, lastSuccessAt, pageVars>>

\* The three functions that keep no cache always go to the network.
Uncached == {"getGroupedSources", "getSourceAnalysis", "getDailyAverages"}

CallUncached ==
    /\ driver \in Uncached
    /\ Issue(Request(driver, NoArgs, Direct))
    /\ last' = Requested(driver, NoArgs)
    /\ UNCHANGED <<now, driver, serviceVars, lastSuccessAt, pageVars>>

UncachedPayloads(fn) ==
    CASE fn = "getGroupedSources" -> GroupedPayloads(NoArgs, now)
      [] fn = "getSourceAnalysis" -> AnalysisPayloads(NoArgs, now)
      [] OTHER -> DailyAveragesPayloads(now)

UncachedResult(fn, out, data) ==
    CASE fn = "getGroupedSources" -> GetGroupedSourcesResult(out, data)
      [] fn = "getSourceAnalysis" -> GetSourceAnalysisResult(out, data)
      [] OTHER -> GetDailyAveragesResult(out, data)

SettleUncached ==
    /\ \E i \in DOMAIN pending, out \in Outcomes :
          /\ pending[i].fn \in Uncached /\ pending[i].k = Direct
          /\ \E data \in UncachedPayloads(pending[i].fn) :
                last' = Settled(pending[i].fn, NoArgs,
                                UncachedResult(pending[i].fn, out, data), out)
          /\ pending' = RemoveAt(pending, i)
    /\ UNCHANGED <<now, driver, issued, serviceVars, lastSuccessAt, pageVars>>

ServiceFunctions ==
    {"getGlobalStats", "getCountryData", "getCountryTimeStats", "getTopCountries"}
        \cup Uncached

EmptyCache == [k \in {} |-> Undefined]

InitService ==
    /\ now = T0
    /\ pending = <<>>
    /\ issued = 0
    /\ cachedGlobalStats = Null
    /\ lastFetchTime = NoDate
    /\ countryCache = EmptyCache
    /\ countryTimeStatsCache = EmptyCache
    /\ cachedTopCountries = Null
    /\ last = NoEvent
    /\ lastSuccessAt = NoDate

InitPages ==
    /\ tc = [mounted |-> FALSE]
    /\ sa = [mounted |-> FALSE]
    /\ cd = [mounted |-> FALSE]
    /\ pg = [mounted |-> FALSE]
    /\ ix = [mounted |-> FALSE]
    /\ localStorage = EmptyCache
    /\ dd = [mounted |-> FALSE]
    /\ wm = [mounted |-> FALSE]

InitDirect ==
    /\ driver \in ServiceFunctions
    /\ InitService
    /\ InitPages

NextDirect ==
    \/ Tick
    \/ CallGetGlobalStats
    \/ SettleGetGlobalStats
    \/ CallGetCountryData
    \/ SettleGetCountryData
    \/ CallGetCountryTimeStats
    \/ SettleGetCountryTimeStats
    \/ CallGetTopCountries
    \/ SettleGetTopCountries
    \/ CallUncached
    \/ SettleUncached

SpecService == InitDirect /\ [][NextDirect]_vars

(* getGlobalStats alone, called while the endpoint sends any list of up to *)
(* MaxCountries countries; XX is a code countryContinents has no entry     *)
(* for, a list may name a country twice, and the country at position i has *)
(* the value i.                                                            *)
CountryCodes == {"US", "FR", "DE", "XX"}
AnyCountryLists ==
    UNION { { [i \in 1..n |-> [code |-> codes[i], value |-> i]] : codes \in [1..n -> CountryCodes] }
            : n \in 0..MaxCountries }

SettleGetGlobalStatsAny == SettleGetGlobalStatsWith(AnyCountryLists)

InitGlobalStats ==
    /\ driver = "getGlobalStats"
    /\ InitService
    /\ InitPages

NextGlobalStats ==
    \/ CallGetGlobalStats
    \/ SettleGetGlobalStatsAny

SpecGlobalStats == InitGlobalStats /\ [][NextGlobalStats]_vars

-----------------------------------------------------------------------------
(* Properties of the service functions, checked under SpecService.         *)
(* `last` is the most recent call or settlement; while it is a call, no    *)
(* response has arrived since, so the caches are as the call found them.   *)

\* C1: none of the seven service functions ever rejects, and a request that
\* fails (network error, non-OK status, a body that cannot be parsed or
\* transformed) makes the function return its fixed default value.
C1_FailuresReturnDefaults ==
    /\ last.fn \in ServiceFunctions => ~last.threw
    /\ (last.event = "settled" /\ last.failed) =>
          last.value = CASE last.fn = "getGlobalStats" -> ZeroGlobalStats
                         [] last.fn = "getCountryData" -> Undefined
                         [] last.fn = "getCountryTimeStats" -> ZeroCountryTimeStats
                         [] last.fn = "getDailyAverages" -> EmptyDailyAverages
                         [] OTHER -> EmptyArray

\* A request of getGlobalStats failed after an earlier one had filled the cache.
C1_Witness ==
    /\ last.fn = "getGlobalStats" /\ last.event = "settled" /\ last.failed
    /\ Truthy(cachedGlobalStats)

\* C2: a call of getGlobalStats made less than 300000 ms after the last
\* successful fetch completed returns the GlobalStats of that fetch without a
\* request; a call made 300000 ms or more after it, or before any successful
\* fetch, issues a request.
C2_GlobalStatsMemoized ==
    (last.fn = "getGlobalStats" /\ last.event \in {"hit", "request"}) =>
        IF IsSet(lastSuccessAt) /\ last.at - TimeOf(lastSuccessAt) < 300000
        THEN /\ last.event = "hit"
             /\ last.value = cachedGlobalStats
             /\ last.value.servedAt = TimeOf(lastSuccessAt)
        ELSE last.event = "request"

\* getGlobalStats answered from the cache one millisecond before the entry expired.
C2_Witness ==
    /\ last.fn = "getGlobalStats" /\ last.event = "hit"
    /\ last.at - last.value.servedAt = 299999

\* C3, as stated: no function returns a cached response stored 300000 ms or
\* more before the call.
C3_EveryCacheExpires ==
    last.event = "hit" => last.at - last.value.servedAt < 300000

\* C3, amended: getGlobalStats and getCountryTimeStats never return a cached
\* response stored 300000 ms or more before the call; getCountryData and
\* getTopCountries issue a request only while they hold no stored response,
\* whatever its age.
C3_OnlyTimedCachesExpire ==
    /\ (last.event = "hit" /\ last.fn \in {"getGlobalStats", "getCountryTimeStats"}) =>
          last.at - last.value.servedAt < 300000
    /\ (last.event = "request" /\ last.fn = "getCountryData") =>
          ~Truthy(CountryCacheAt(last.args.iso2))
    /\ (last.event = "request" /\ last.fn = "getTopCountries") =>
          ~Truthy(cachedTopCountries)

\* getCountryData answered from an entry stored 300000 ms or more before the call.
C3_Witness ==
    /\ last.fn = "getCountryData" /\ last.event = "hit"
    /\ last.at - last.value.servedAt >= 300000

\* C4: the key is one-to-one on (iso2, startDate, endDate); getCountryTimeStats
\* returns a cached response only if it answers a request with the same triple
\* and was stored less than 300000 ms before the call; every entry sits under
\* the key of the request it answers.
C4_CacheKeyedByTriple ==
    /\ \A a, b \in DirectTriples : KeyOf(a) = KeyOf(b) => a = b
    /\ (last.fn = "getCountryTimeStats" /\ last.event = "hit") =>
          /\ last.value.request = last.args
          /\ last.at - last.value.servedAt < 300000
    /\ \A key \in DOMAIN countryTimeStatsCache :
          KeyOf(countryTimeStatsCache[key].sent.request) = key

\* A cache hit for a range with both dates while another triple's entry is held too.
C4_Witness ==
    /\ last.fn = "getCountryTimeStats" /\ last.event = "hit"
    /\ IsSet(last.args.startDate) /\ IsSet(last.args.endDate)
    /\ Cardinality(DOMAIN countryTimeStatsCache) = 2

\* The functions that keep a cache.
CachedFunctions == {"getGlobalStats", "getCountryData", "getCountryTimeStats", "getTopCountries"}

\* A request of a caching function settles as failed.
FailedSettlement ==
    /\ Len(pending') < Len(pending)
    /\ last'.event = "settled" /\ last'.failed /\ last'.fn \in CachedFunctions

\* The call that follows a failed request, made with the same parameters.
CallAfterFailure ==
    /\ last.event = "settled" /\ last.failed /\ last.fn \in CachedFunctions
    /\ last'.event \in {"hit", "request"}
    /\ last'.fn = last.fn /\ last'.args = last.args

FailureLeavesCaches == FailedSettlement => UNCHANGED serviceVars

\* A cached value that is returned is a response of the server (it carries
\* the time it was served), never a default made up by a catch block.
HitIsResponse == last.event = "hit" => "servedAt" \in DOMAIN last.value

\* C12, as stated: a failed request of a caching function leaves every cache
\* unchanged, no default is memoized, and the next call with the same
\* parameters issues a new request.
C12_FailureThenNewRequest ==
    /\ [][FailureLeavesCaches]_vars
    /\ []HitIsResponse
    /\ [][CallAfterFailure => last'.event = "request"]_vars

\* C12, amended: a failed request of a caching function leaves every cache
\* unchanged and no default is memoized; the next call with the same
\* parameters issues a new request unless the cache holds a response that
\* another request stored, which it then returns.
C12_FailureNotMemoized ==
    /\ [][FailureLeavesCaches]_vars
    /\ []HitIsResponse
    /\ [][CallAfterFailure =>
            \/ last'.event = "request"
            \/ /\ "servedAt" \in DOMAIN last'.value
               /\ last'.value.servedAt <= last.at]_vars

\* A request of getCountryData failed while the cache holds what a concurrent
\* request for the same country stored.
C12_Witness ==
    /\ last.fn = "getCountryData" /\ last.event = "settled" /\ last.failed
    /\ Truthy(CountryCacheAt(last.args.iso2))

\* The codes of the model that countryContinents has an entry for.
MappedCodes == {"US", "FR", "DE", "IL"}

RECURSIVE SumOfValues(_)
SumOfValues(countries) ==
    IF countries = <<>> THEN 0
    ELSE Head(countries).value + SumOfValues(Tail(countries))

RECURSIVE SumOfTotals(_)
SumOfTotals(continents) ==
    IF continents = <<>> THEN 0
    ELSE Head(continents).totalArticles + SumOfTotals(Tail(continents))

\* The continents whose countries list holds the country at position i of topCountries
ContinentsHolding(stats, i) ==
    {c \in DOMAIN stats.continents :
        \E j \in DOMAIN stats.continents[c].countries :
            stats.continents[c].countries[j] = stats.topCountries[i]}

\* C13: in the GlobalStats a successful getGlobalStats returns, the continents
\* have distinct names, every country of topCountries sits in the list of
\* exactly one continent (as often as topCountries names it), under "Unknown"
\* when its code has no entry in countryContinents, each continent's
\* totalArticles is the sum of its members' values, and the totals add up to
\* the sum of the values of topCountries.
C13_ContinentGrouping ==
    (last.fn = "getGlobalStats" /\ last.event \in {"settled", "hit"} /\ ~last.failed) =>
        LET stats == last.value
            top == stats.topCountries
            cs == stats.continents
        IN /\ \A a, b \in DOMAIN cs : cs[a].name = cs[b].name => a = b
           /\ \A i \in DOMAIN top :
                 /\ Cardinality(ContinentsHolding(stats, i)) = 1
                 /\ top[i].code \notin MappedCodes =>
                       \A c \in ContinentsHolding(stats, i) : cs[c].name = "Unknown"
           /\ \A c \in DOMAIN cs :
                 /\ cs[c].totalArticles = SumOfValues(cs[c].countries)
                 /\ cs[c].countries # <<>>
           /\ SumOfTotals(cs) = SumOfValues(top)
           /\ \A c \in DOMAIN cs :
                 Len(cs[c].countries) = Cardinality({i \in DOMAIN top : c \in ContinentsHolding(stats, i)})

\* A response with an unmapped country and two countries of one continent was grouped.
C13_Witness ==
    /\ last.fn = "getGlobalStats" /\ last.event = "settled" /\ ~last.failed
    /\ \E c \in DOMAIN last.value.continents :
          /\ last.value.continents[c].name = "Unknown"
    /\ \E c \in DOMAIN last.value.continents :
          /\ last.value.continents[c].name = "Europe"
          /\ Len(last.value.continents[c].countries) = 2

-----------------------------------------------------------------------------
(* Pagination: SourceAnalysis (part_000) and CountryDetail (part_001)      *)

Min(a, b) == IF a < b THEN a ELSE b
Max(a, b) == IF a > b THEN a ELSE b

\* Math.ceil(n / s) for n >= 0, s > 0
Ceil(n, s) == IF n % s = 0 THEN n \div s ELSE n \div s + 1

\* Variant of the slice below that takes the element at `end` too.
SliceInclusive(list, start, end) ==
    LET from == IF start < 0 THEN Max(Len(list) + start, 0) ELSE Min(start, Len(list))
        to == IF end < 0 THEN Max(Len(list) + end, 0) ELSE Min(end, Len(list))
    IN SubSeq(list, from + 1, Min(to + 1, Len(list)))

\* Array.prototype.slice(start, end): zero-based, end exclusive, both clamped.
Slice(list, start, end) ==
    LET from == IF start < 0 THEN Max(Len(list) + start, 0) ELSE Min(start, Len(list))
        to == IF end < 0 THEN Max(Len(list) + end, 0) ELSE Min(end, Len(list))
    IN SubSeq(list, from + 1, to)

\* SourceAnalysis: totalPages and currentItems of a render.
totalPages(displayedSources) == Ceil(Len(displayedSources), ITEMS_PER_PAGE)
currentItems(displayedSources, currentPage) ==
    LET startIndex == (currentPage - 1) * ITEMS_PER_PAGE
        endIndex == startIndex + ITEMS_PER_PAGE
    IN Slice(displayedSources, startIndex, endIndex)

\* CountryDetail
getTotalPages(articles) == Ceil(Len(articles), ARTICLES_PER_PAGE)
getCurrentArticles(articles, currentPage) ==
    LET startIndex == (currentPage - 1) * ARTICLES_PER_PAGE
    IN Slice(articles, startIndex, startIndex + ARTICLES_PER_PAGE)

(* A list laid out in pages by one of the two components; the items are    *)
(* told apart by their position in the list.                               *)
Paginators == {"SourceAnalysis", "CountryDetail"}
PageSize(component) ==
    IF component = "SourceAnalysis" THEN ITEMS_PER_PAGE ELSE ARTICLES_PER_PAGE
PagesOf(component, list) ==
    IF component = "SourceAnalysis" THEN totalPages(list) ELSE getTotalPages(list)
PageOf(component, list, page) ==
    IF component = "SourceAnalysis" THEN currentItems(list, page)
    ELSE getCurrentArticles(list, page)

InitPagination ==
    /\ driver = "pagination"
    /\ InitService
    /\ tc = [mounted |-> FALSE]
    /\ sa = [mounted |-> FALSE]
    /\ cd = [mounted |-> FALSE]
    /\ ix = [mounted |-> FALSE]
    /\ localStorage = EmptyCache
    /\ dd = [mounted |-> FALSE]
    /\ wm = [mounted |-> FALSE]
    /\ \E component \in Paginators, n \in 0..MaxLength :
          pg = [mounted |-> TRUE, component |-> component,
                list |-> [i \in 1..n |-> i], currentPage |-> 1]

\* handlePageChange(page), from a page link or the previous/next buttons.
PgHandlePageChange ==
    /\ driver = "pagination"
    /\ \E page \in 1..PagesOf(pg.component, pg.list) :
          /\ page # pg.currentPage
          /\ pg' = [pg EXCEPT !.currentPage = page]
    /\ UNCHANGED <<now, pending, issued, serviceVars, last, lastSuccessAt, driver, tc, sa, cd, ix, localStorage, dd, wm>>

NextPagination == PgHandlePageChange

SpecPagination == InitPagination /\ [][NextPagination]_vars

RECURSIVE Concat(_, _, _, _)
Concat(component, list, page, last_page) ==
    IF page > last_page THEN <<>>
    ELSE PageOf(component, list, page) \o Concat(component, list, page + 1, last_page)

\* C7: with n items and page size s, totalPages is ceil(n / s); page p holds
\* the items at indices (p-1)*s .. min(p*s, n)-1 in list order; for n >= 1 the
\* pages 1..totalPages are non-empty, pairwise disjoint, full except possibly
\* the last, and together hold every item exactly once.
C7_PaginationMath ==
    pg.mounted =>
        LET s == PageSize(pg.component)
            n == Len(pg.list)
            T == PagesOf(pg.component, pg.list)
            Page(p) == PageOf(pg.component, pg.list, p)
            Items(p) == {Page(p)[i] : i \in DOMAIN Page(p)}
        IN /\ (T - 1) * s < n /\ n <= T * s
           /\ \A p \in 1..T :
                 /\ Page(p) = [i \in 1..(Min(p * s, n) - (p - 1) * s) |->
                                   pg.list[(p - 1) * s + i]]
                 /\ Page(p) # <<>>
                 /\ p < T => Len(Page(p)) = s
                 /\ \A q \in 1..T : q # p => Items(p) \cap Items(q) = {}
           /\ Concat(pg.component, pg.list, 1, T) = pg.list

\* The last, partly filled page of a list of more than two pages is shown.
C7_Witness ==
    /\ pg.mounted /\ pg.currentPage = PagesOf(pg.component, pg.list)
    /\ pg.currentPage > 2
    /\ Len(pg.list) % PageSize(pg.component) # 0

-----------------------------------------------------------------------------
(* services/trendComparison (part_008) and pages/TrendComparison.tsx       *)

\* An optional string of component state: undefined is <<>>.
Unset == <<>>
Message(text) == <<text>>

ComparisonPayloads ==
    {[t |-> "array", items |-> <<[articleCount |-> 2], [articleCount |-> 1]>>]}

\* Variant of the function below whose catch block returns an empty value.
TimeFrameComparisonSwallowing(out, data) ==
    IF out = NetworkError \/ ~ResponseOk(out) \/ ~JsonParses(out)
          \/ out.body \in {"null", "empty"}
    THEN Returned(EmptyArray)
    ELSE Returned(data)

\* timeFrameComparison from the settled fetch on: every error is logged and
\* thrown again.
TimeFrameComparisonResult(out, data) ==
    CASE out = NetworkError -> ThrownError("Failed to fetch")
      [] ~ResponseOk(out) -> ThrownError("Failed to fetch comparison data")
      [] ~JsonParses(out) -> ThrownError("Unexpected token < in JSON at position 0")
      [] out.body = "null" -> ThrownError("data is not iterable")
      [] out.body = "empty" -> ThrownError("data is not iterable")
      [] OTHER -> Returned(data)

StartBeforeEnd == "Start date must be before end date"
NoFutureDates == "Dates cannot be in the future"

InitTrendComparison ==
    tc = [mounted |-> TRUE, timeFrame1Start |-> NoDate, timeFrame1End |-> NoDate,
          timeFrame2Start |-> NoDate, timeFrame2End |-> NoDate,
          comparisonData |-> Undefined, loading |-> FALSE, error |-> Unset]

TcDateFields == {"timeFrame1Start", "timeFrame1End", "timeFrame2Start", "timeFrame2End"}

\* <Calendar onSelect={setTimeFrame...}>: a day is picked, or the selected day is cleared.
TcOnSelect ==
    /\ driver = "TrendComparison"
    /\ \E field \in TcDateFields, date \in OptionalDates :
          /\ date # tc[field]
          /\ tc' = [tc EXCEPT ![field] = date]
    /\ UNCHANGED <<now, driver, pending, issued, serviceVars, last, lastSuccessAt, sa, cd, pg, ix, localStorage, dd, wm>>

TcAllDatesSet == \A field \in TcDateFields : IsSet(tc[field])
TcStartAfterEnd ==
    \/ TimeOf(tc.timeFrame1Start) > TimeOf(tc.timeFrame1End)
    \/ TimeOf(tc.timeFrame2Start) > TimeOf(tc.timeFrame2End)
\* Variant of the check below that looks at the start dates only.
TcStartInFuture ==
    TimeOf(tc.timeFrame1Start) > now \/ TimeOf(tc.timeFrame2Start) > now

TcInFuture == \E field \in TcDateFields : TimeOf(tc[field]) > now

\* Variant of the step below whose button stays enabled while loading.
TcHandleCompareWhileLoading ==
    /\ driver = "TrendComparison"
    /\ TcAllDatesSet /\ Len(pending) < MaxPending
    /\ IF TcStartAfterEnd
       THEN /\ tc' = [tc EXCEPT !.error = Message(StartBeforeEnd), !.loading = FALSE]
            /\ UNCHANGED <<pending, last>>
       ELSE IF TcInFuture
       THEN /\ tc' = [tc EXCEPT !.error = Message(NoFutureDates), !.loading = FALSE]
            /\ UNCHANGED <<pending, last>>
       ELSE /\ tc' = [tc EXCEPT !.error = Unset, !.loading = TRUE]
            /\ pending' = Append(pending, Request("timeFrameComparison", NoArgs, [who |-> "TrendComparison"]))
            /\ last' = Requested("timeFrameComparison", NoArgs)
    /\ UNCHANGED <<now, driver, issued, serviceVars, lastSuccessAt, sa, cd, pg, ix, localStorage, dd, wm>>

\* The Compare button (disabled while a date is missing or loading): handleCompare
\* up to its await.
TcHandleCompare ==
    /\ driver = "TrendComparison"
    /\ TcAllDatesSet /\ ~tc.loading
    /\ IF TcStartAfterEnd
       THEN /\ tc' = [tc EXCEPT !.error = Message(StartBeforeEnd), !.loading = FALSE]
            /\ UNCHANGED <<pending, last>>
       ELSE IF TcInFuture
       THEN /\ tc' = [tc EXCEPT !.error = Message(NoFutureDates), !.loading = FALSE]
            /\ UNCHANGED <<pending, last>>
       ELSE /\ tc' = [tc EXCEPT !.error = Unset, !.loading = TRUE]
            /\ pending' = Append(pending, Request("timeFrameComparison", NoArgs, [who |-> "TrendComparison"]))
            /\ last' = Requested("timeFrameComparison", NoArgs)
    /\ UNCHANGED <<now, driver, issued, serviceVars, lastSuccessAt, sa, cd, pg, ix, localStorage, dd, wm>>

\* Variant of the step below whose catch block drops the displayed comparison.
TcSettleClearing ==
    /\ driver = "TrendComparison"
    /\ \E i \in DOMAIN pending, out \in Outcomes, data \in ComparisonPayloads :
          /\ pending[i].fn = "timeFrameComparison"
          /\ LET res == TimeFrameComparisonResult(out, data)
             IN /\ last' = Settled("timeFrameComparison", NoArgs, res, out)
                /\ tc' = IF res.threw
                         THEN [tc EXCEPT !.error = Message(res.value.message),
                                         !.comparisonData = Undefined,
                                         !.loading = FALSE]
                         ELSE [tc EXCEPT !.comparisonData = res.value, !.loading = FALSE]
          /\ pending' = RemoveAt(pending, i)
    /\ UNCHANGED <<now, driver, issued, serviceVars, lastSuccessAt, sa, cd, pg, ix, localStorage, dd, wm>>

\* The request settles and handleCompare resumes: try / catch / finally.
TcSettle ==
    /\ driver = "TrendComparison"
    /\ \E i \in DOMAIN pending, out \in Outcomes, data \in ComparisonPayloads :
          /\ pending[i].fn = "timeFrameComparison"
          /\ LET res == TimeFrameComparisonResult(out, data)
             IN /\ last' = Settled("timeFrameComparison", NoArgs, res, out)
                /\ tc' = IF res.threw
                         THEN [tc EXCEPT !.error = Message(res.value.message),
                                         !.loading = FALSE]
                         ELSE [tc EXCEPT !.comparisonData = res.value, !.loading = FALSE]
          /\ pending' = RemoveAt(pending, i)
    /\ UNCHANGED <<now, driver, issued, serviceVars, lastSuccessAt, sa, cd, pg, ix, localStorage, dd, wm>>

-----------------------------------------------------------------------------
(* SourceAnalysis (part_000, lines 1-493)                                  *)

EmptyText == <<>>
Terms == {<<"A">>}                     \* what the user types or selects as a search term
Unknown == <<"U", "n", "k", "n", "o", "w", "n">>

toLowerCase(text) ==
    [i \in DOMAIN text |->
        CASE text[i] = "A" -> "a" [] text[i] = "B" -> "b" [] text[i] = "F" -> "f"
          [] text[i] = "R" -> "r" [] text[i] = "U" -> "u" [] OTHER -> text[i]]

\* String.prototype.includes
includes(text, part) ==
    \E i \in 0..(Len(text) - Len(part)) : SubSeq(text, i + 1, i + Len(part)) = part

RECURSIVE SelectSeq2(_, _)
\* `apiResults.filter(source => source.name.toLowerCase().includes(searchLower))`
SelectSeq2(list, searchLower) ==
    IF list = <<>> THEN <<>>
    ELSE (IF includes(toLowerCase(Head(list).name), searchLower) THEN <<Head(list)>> ELSE <<>>)
            \o SelectSeq2(Tail(list), searchLower)

RECURSIVE KeepLast(_, _)
\* Variant of the filter below that keeps the last article of each title.
KeepLast(articles, seen) ==
    IF articles = <<>> THEN <<>>
    ELSE IF \E i \in 2..Len(articles) : articles[i].title = Head(articles).title
    THEN KeepLast(Tail(articles), seen)
    ELSE <<Head(articles)>> \o KeepLast(Tail(articles), seen)

RECURSIVE KeepFirst(_, _)
\* recentArticles.filter(...) against the uniqueArticles map: titles not seen so far
KeepFirst(articles, seen) ==
    IF articles = <<>> THEN <<>>
    ELSE IF Head(articles).title \in seen THEN KeepFirst(Tail(articles), seen)
    ELSE <<Head(articles)>> \o KeepFirst(Tail(articles), seen \cup {Head(articles).title})

RECURSIVE UniqueRecentArticles(_, _)
\* `data.map(item => ({...item, recentArticles: uniqueRecentArticles}))`, one map
\* of seen titles for the whole response
UniqueRecentArticles(items, seen) ==
    IF items = <<>> THEN <<>>
    ELSE LET kept == KeepFirst(Head(items).recentArticles, seen)
         IN <<[Head(items) EXCEPT !.recentArticles = kept]>>
               \o UniqueRecentArticles(Tail(items),
                                       seen \cup {kept[i].title : i \in DOMAIN kept})

\* The conversion of a source-analysis item, with the filterType captured by fetchSources
ConvertedItem(item, filterType) ==
    [name |-> IF filterType = "author"
              THEN (IF item.source # EmptyText THEN item.source ELSE Unknown)
              ELSE (IF item.country # EmptyText THEN item.country ELSE Unknown),
     recentArticles |-> item.recentArticles]
ConvertedData(items, filterType) ==
    UniqueRecentArticles([i \in DOMAIN items |-> ConvertedItem(items[i], filterType)], {})

InitSourceAnalysis ==
    sa = [mounted |-> TRUE, loading |-> FALSE, filterType |-> "author",
          activeFilterType |-> "author", searchTerm |-> EmptyText,
          pendingSearchTerm |-> EmptyText, startDate |-> NoDate, endDate |-> NoDate,
          apiResults |-> <<>>, displayedSources |-> <<>>, currentPage |-> 1,
          error |-> Unset,
          shownGrouping |-> "author"]    \* history: the filterType of the request displayedSources answers

SaUnchanged == UNCHANGED <<now, driver, serviceVars, lastSuccessAt, tc, cd, pg, ix, localStorage, dd, wm>>

\* The date pickers and their reset buttons
SaSetDate ==
    /\ driver = "SourceAnalysis"
    /\ \E field \in {"startDate", "endDate"}, date \in OptionalDates :
          /\ date # sa[field]
          /\ sa' = [sa EXCEPT ![field] = date]
    /\ UNCHANGED <<pending, issued, last>>
    /\ SaUnchanged

\* The Group By select
SaGroupBy ==
    /\ driver = "SourceAnalysis"
    /\ \E value \in {"author", "country"} :
          /\ value # sa.filterType
          /\ sa' = [sa EXCEPT !.filterType = value, !.pendingSearchTerm = EmptyText]
    /\ UNCHANGED <<pending, issued, last>>
    /\ SaUnchanged

\* handleSearchFilter(term), from the author input or the country select
SaHandleSearchFilter ==
    /\ driver = "SourceAnalysis"
    /\ \E term \in Terms \cup {EmptyText} :
          /\ term # sa.pendingSearchTerm
          /\ sa' = IF sa.filterType = "author"
                   THEN [sa EXCEPT !.pendingSearchTerm = term, !.currentPage = 1,
                                   !.displayedSources =
                                       IF term = EmptyText THEN sa.apiResults
                                       ELSE SelectSeq2(sa.apiResults, toLowerCase(term))]
                   ELSE [sa EXCEPT !.pendingSearchTerm = term]
    /\ UNCHANGED <<pending, issued, last>>
    /\ SaUnchanged

SaStartAfterEnd ==
    IsSet(sa.startDate) /\ IsSet(sa.endDate) /\ TimeOf(sa.startDate) > TimeOf(sa.endDate)
SaInFuture ==
    \/ IsSet(sa.startDate) /\ TimeOf(sa.startDate) > now
    \/ IsSet(sa.endDate) /\ TimeOf(sa.endDate) > now

\* fetchSources up to its await, run by the render whose state is sa; base is
\* the state the updates queued before it lead to.
FetchSources(base) ==
    IF SaStartAfterEnd
    THEN /\ sa' = [base EXCEPT !.error = Message(StartBeforeEnd), !.loading = FALSE]
         /\ UNCHANGED <<pending, issued, last>>
    ELSE IF SaInFuture
    THEN /\ sa' = [base EXCEPT !.error = Message(NoFutureDates), !.loading = FALSE]
         /\ UNCHANGED <<pending, issued, last>>
    ELSE LET fn == IF sa.pendingSearchTerm # EmptyText
                   THEN "getSourceAnalysis" ELSE "getGroupedSources"
             args == [filterType |-> sa.filterType, term |-> sa.pendingSearchTerm]
         IN /\ sa' = [base EXCEPT !.error = Message(""), !.loading = TRUE]
            /\ Issue(Request(fn, args, [who |-> "SourceAnalysis"]))
            /\ last' = Requested(fn, NoArgs)

\* handleFilter, run by the render whose state is sa
HandleFilter(base) ==
    FetchSources([base EXCEPT !.currentPage = 1, !.activeFilterType = sa.filterType,
                              !.searchTerm = sa.pendingSearchTerm])

\* The Apply Filters button (disabled while loading)
SaApplyFilters ==
    /\ driver = "SourceAnalysis"
    /\ ~sa.loading
    /\ HandleFilter(sa)
    /\ SaUnchanged

\* The reset-search buttons: setPendingSearchTerm(""); setSearchTerm(""); handleFilter()
SaResetSearch ==
    /\ driver = "SourceAnalysis"
    /\ HandleFilter([sa EXCEPT !.pendingSearchTerm = EmptyText, !.searchTerm = EmptyText])
    /\ SaUnchanged

\* A request settles and fetchSources resumes with what it captured.
SaSettle ==
    /\ driver = "SourceAnalysis"
    /\ \E i \in DOMAIN pending, out \in Outcomes :
          LET req == pending[i]
          IN /\ req.k.who = "SourceAnalysis"
             /\ \E data \in (IF req.fn = "getSourceAnalysis"
                               THEN AnalysisPayloads(NoArgs, now)
                               ELSE GroupedPayloads(NoArgs, now)) :
                   LET got == IF req.fn = "getSourceAnalysis"
                              THEN GetSourceAnalysisResult(out, data)
                              ELSE GetGroupedSourcesResult(out, data)
                   IN /\ last' = Settled(req.fn, NoArgs, got, out)
                      /\ sa' = IF got.value = Undefined     \* data.map raises, caught
                               THEN [sa EXCEPT !.loading = FALSE]
                               ELSE LET processed ==
                                          IF req.fn = "getSourceAnalysis"
                                          THEN ConvertedData(got.value.items, req.args.filterType)
                                          ELSE UniqueRecentArticles(got.value.items, {})
                                    IN [sa EXCEPT !.apiResults = processed,
                                                  !.displayedSources = processed,
                                                  !.shownGrouping = req.args.filterType,
                                                  !.loading = FALSE]
             /\ pending' = RemoveAt(pending, i)
    /\ UNCHANGED issued
    /\ SaUnchanged

\* What the Results card renders
SaFalsy(text) == text = Unset \/ text = Message("")
SaTableDisplayed ==
    sa.mounted /\ ~sa.loading /\ SaFalsy(sa.error) /\ sa.displayedSources # <<>>

\* The pagination controls: previous, next, and the links of the first page, the
\* last page and the pages next to the current one.
SaHandlePageChange ==
    /\ driver = "SourceAnalysis"
    /\ SaTableDisplayed
    /\ totalPages(sa.displayedSources) > 1
    /\ \E page \in 1..totalPages(sa.displayedSources) \cup {sa.currentPage - 1} :
          /\ \/ page = sa.currentPage - 1 /\ sa.currentPage > 1
             \/ page = sa.currentPage + 1 /\ sa.currentPage < totalPages(sa.displayedSources)
             \/ /\ page \in 1..totalPages(sa.displayedSources)
                /\ \/ page = 1
                   \/ page = totalPages(sa.displayedSources)
                   \/ page >= sa.currentPage - 1 /\ page <= sa.currentPage + 1
          /\ page # sa.currentPage
          /\ sa' = [sa EXCEPT !.currentPage = page]
    /\ UNCHANGED <<pending, issued, last>>
    /\ SaUnchanged

-----------------------------------------------------------------------------
(* The two pages with a date-range form, each mounted on its own. In       *)
(* SpecForms the user works the date pickers, the search box and the       *)
(* buttons that start a request; in SpecSourceAnalysis the dates stay      *)
(* unset and the user works everything else on the SourceAnalysis page.    *)

Unmounted == [mounted |-> FALSE]

InitForms ==
    /\ driver \in {"TrendComparison", "SourceAnalysis"}
    /\ InitService
    /\ IF driver = "TrendComparison" THEN InitTrendComparison ELSE tc = Unmounted
    /\ IF driver = "SourceAnalysis" THEN InitSourceAnalysis ELSE sa = Unmounted
    /\ cd = Unmounted
    /\ pg = Unmounted
    /\ ix = Unmounted
    /\ localStorage = EmptyCache
    /\ dd = [mounted |-> FALSE]
    /\ wm = [mounted |-> FALSE]

NextForms ==
    \/ TcOnSelect
    \/ TcHandleCompare
    \/ TcSettle
    \/ SaSetDate
    \/ SaHandleSearchFilter
    \/ SaApplyFilters
    \/ SaResetSearch
    \/ SaSettle

SpecForms == InitForms /\ [][NextForms]_vars

InitSourceAnalysisPage == InitForms /\ driver = "SourceAnalysis"

NextSourceAnalysis ==
    \/ SaGroupBy
    \/ SaHandleSearchFilter
    \/ SaApplyFilters
    \/ SaResetSearch
    \/ SaSettle
    \/ SaHandlePageChange

SpecSourceAnalysis == InitSourceAnalysisPage /\ [][NextSourceAnalysis]_vars

\* C5: handleCompare issues its request only if all four dates are set, start <=
\* end in both time frames and no date is later than now; fetchSources issues
\* its request only if not (both dates set and start > end) and no set date is
\* later than now. When the validation fails, no request is issued, error is
\* one of the two validation messages and loading is false.
C5_ValidationGatesRequest ==
    [][ /\ TcHandleCompare =>
            LET allSet == \A f \in TcDateFields : tc[f] # NoDate
                ordered == /\ tc.timeFrame1Start[1] <= tc.timeFrame1End[1]
                           /\ tc.timeFrame2Start[1] <= tc.timeFrame2End[1]
                past == \A f \in TcDateFields : tc[f][1] <= now
            IN IF allSet /\ ordered /\ past
               THEN Len(pending') = Len(pending) + 1
               ELSE /\ pending' = pending
                    /\ allSet => /\ tc'.error = Message(IF ordered THEN NoFutureDates
                                                         ELSE StartBeforeEnd)
                                 /\ ~tc'.loading
        /\ (SaApplyFilters \/ SaResetSearch) =>
            LET ordered == ~(sa.startDate # NoDate /\ sa.endDate # NoDate
                              /\ sa.startDate[1] > sa.endDate[1])
                past == /\ sa.startDate # NoDate => sa.startDate[1] <= now
                        /\ sa.endDate # NoDate => sa.endDate[1] <= now
            IN IF ordered /\ past
               THEN Len(pending') = Len(pending) + 1
               ELSE /\ pending' = pending
                    /\ sa'.error = Message(IF ordered THEN NoFutureDates ELSE StartBeforeEnd)
                    /\ ~sa'.loading
      ]_vars

\* fetchSources refused a range whose end is in the future while an earlier
\* request was still in flight.
C5_Witness ==
    /\ sa.mounted /\ sa.error = Message(NoFutureDates) /\ ~sa.loading
    /\ sa.startDate = NoDate /\ sa.endDate # NoDate
    /\ Len(pending) = 1

\* A comparison request settles as failed.
TcFailedSettlement ==
    /\ Len(pending') < Len(pending)
    /\ last'.fn = "timeFrameComparison" /\ last'.event = "settled" /\ last'.failed

\* handleCompare issues its request.
TcRequestIssued ==
    /\ Len(pending') > Len(pending)
    /\ last'.fn = "timeFrameComparison" /\ last'.event = "request"

\* C14: when a comparison request fails, TrendComparison sets error to a
\* non-empty message, ends loading and leaves comparisonData as it was; the
\* step that issues a comparison request clears error, and no error is shown
\* while the request is in flight.
C14_FailureHandledAtCallSite ==
    /\ [][TcFailedSettlement =>
            /\ tc'.error # Unset /\ tc'.error # Message("")
            /\ ~tc'.loading
            /\ tc'.comparisonData = tc.comparisonData]_vars
    /\ [][TcRequestIssued => tc'.error = Unset /\ tc'.loading]_vars
    /\ []((tc.mounted /\ pending # <<>>) => tc.error = Unset /\ tc.loading)

\* A comparison failed while the result of an earlier one is displayed.
C14_Witness ==
    /\ tc.mounted /\ last.fn = "timeFrameComparison" /\ last.event = "settled" /\ last.failed
    /\ tc.comparisonData.t = "array"
    /\ tc.error # Unset /\ ~tc.loading

TcInFlight == {i \in DOMAIN pending : pending[i].fn = "timeFrameComparison"}

\* C22: at most one comparison request is in flight at any time, loading is
\* true exactly while a request is in flight, and the step that issues a
\* request starts from a state in which the Compare button is enabled
\* (loading false).
C22_OneComparisonInFlight ==
    /\ [](tc.mounted => /\ Cardinality(TcInFlight) <= 1
                        /\ tc.loading <=> TcInFlight # {})
    /\ [][TcRequestIssued => ~tc.loading]_vars

\* A second comparison is in flight after the first one has settled and is
\* displayed.
C22_Witness ==
    /\ tc.mounted /\ tc.loading /\ Cardinality(TcInFlight) = 1
    /\ tc.comparisonData.t = "array"

\* C8, as stated: when the request of timeFrameComparison fails, the function
\* returns a value instead of throwing.
C8_FailureReturnsDefault ==
    (last.fn = "timeFrameComparison" /\ last.event = "settled" /\ last.failed) =>
        ~last.threw

\* C8, amended: when the request of timeFrameComparison fails, the function
\* rejects with the error; handleCompare catches it, shows its message and
\* ends loading.
C8_FailureRethrown ==
    [][ (TcSettle /\ last'.failed) =>
            /\ last'.threw
            /\ last'.value.t = "Error"
            /\ tc'.error = Message(last'.value.message)
            /\ ~tc'.loading
      ]_vars

\* A comparison answered with a non-OK status left its message on the page.
C8_Witness ==
    /\ last.fn = "timeFrameComparison" /\ last.event = "settled" /\ last.failed
    /\ last.threw
    /\ tc.error = Message("Failed to fetch comparison data")

\* A reset-search button is clicked while a search term is entered, and the
\* click issues a request.
SaResetClickWithTerm ==
    /\ sa.pendingSearchTerm # EmptyText /\ sa'.pendingSearchTerm = EmptyText
    /\ Len(pending') = Len(pending) + 1

\* C16: a click on a reset-search button while a search term is entered leaves
\* pendingSearchTerm and searchTerm empty, and the request it issues is the
\* unfiltered getGroupedSources request.
C16_ResetSearchUnfiltered ==
    [][SaResetClickWithTerm =>
          /\ sa'.searchTerm = EmptyText
          /\ pending'[Len(pending')].fn = "getGroupedSources"
          /\ pending'[Len(pending')].args.term = EmptyText]_vars

SaInFlight == {i \in DOMAIN pending : pending[i].k.who = "SourceAnalysis"}

\* C23: at most one source request is in flight at any time, and loading is
\* true whenever a request is in flight.
C23_OneSourceRequestInFlight ==
    sa.mounted =>
        /\ Cardinality(SaInFlight) <= 1
        /\ SaInFlight # {} => sa.loading

\* C24: whenever the results table is displayed, activeFilterType is the
\* grouping used by the request whose response displayedSources holds.
C24_HeaderMatchesGrouping ==
    SaTableDisplayed => sa.activeFilterType = sa.shownGrouping

\* C10: whenever the results table is displayed, 1 <= currentPage <= totalPages.
C10_PageInRange ==
    SaTableDisplayed =>
        /\ 1 <= sa.currentPage
        /\ sa.currentPage <= totalPages(sa.displayedSources)

-----------------------------------------------------------------------------
(* CountryDetail (part_001)                                                *)

CountryNotFound == "Country not found"

\* validateDates(start, end): the dateError it leaves (Unset for null)
validateDates(start, end) ==
    IF IsSet(start) /\ IsSet(end) /\ TimeOf(start) > TimeOf(end)
    THEN Message("Start date must be before end date")
    ELSE IF IsSet(start) /\ TimeOf(start) > now
    THEN Message("Start date cannot be in the future")
    ELSE IF IsSet(end) /\ TimeOf(end) > now
    THEN Message("End date cannot be in the future")
    ELSE Unset

\* formatDateForAPI: setHours(0, 0, 0, 0), or setHours(23, 59, 59, 999) for an end date
formatDateForAPI(date, isEndDate) ==
    IF ~IsSet(date) THEN NoDate
    ELSE LET midnight == (TimeOf(date) \div MsPerDay) * MsPerDay
         IN DateOf(IF isEndDate THEN midnight + MsPerDay - 1 ELSE midnight)

RECURSIVE ProcessedTimeline(_)
\* timelineData.map(...).filter(item => item !== null)
ProcessedTimeline(items) ==
    IF items = <<>> THEN <<>>
    ELSE LET item == Head(items)
         IN (IF item.date = "" \/ ~item.countIsNumber THEN <<>>
             ELSE <<[date |-> item.date, countIsNumber |-> TRUE, count |-> item.count,
                     tone |-> IF item.tone = <<>> THEN <<0>> ELSE item.tone]>>)
                \o ProcessedTimeline(Tail(items))

\* What fetchData leaves in the object getCountryTimeStats handed it
ProcessedTimeStats(timeStatsData) ==
    IF timeStatsData.t # "object" THEN timeStatsData        \* {}: both fields are undefined
    ELSE [timeStatsData EXCEPT
            !.timelineData = IF Len(@) > 0 THEN ProcessedTimeline(@) ELSE @,
            !.articles = KeepFirst(@, {})]

\* The page is mounted for /country/US and the effect on [iso2] has run
\* fetchData(true): with the country still to be fetched, or, when an earlier
\* visit of the session left it in countryCache, with the time stats asked for.
CdMountClosure ==
    [who |-> "CountryDetail", isInitialFetch |-> TRUE, iso2 |-> "US",
     startDate |-> NoDate, endDate |-> NoDate]
CdMounted ==
    [mounted |-> TRUE, iso2 |-> "US", country |-> Null, timeStats |-> Null,
     loading |-> TRUE, error |-> Unset, startDate |-> NoDate, endDate |-> NoDate,
     dateError |-> Unset, isSearching |-> FALSE, initialTimeStats |-> Null,
     currentPage |-> 1, showAllArticles |-> FALSE,
     timeStatsObj |-> 0, initialObj |-> 0, cacheObj |-> <<>>,
     selected |-> <<[NoArgs EXCEPT !.iso2 = "US"]>>]   \* history: what the fetchData started last asks for
VisitedBefore ==
    [iso2 \in Iso2s |->
        CHOOSE data \in CountryPayloads(iso2, T0 - CACHE_DURATION) : TRUE]

InitCountryDetail ==
    /\ countryCache \in {EmptyCache, VisitedBefore}
    /\ issued = 1
    /\ IF CountryCacheValid("US")
       THEN /\ cd = [CdMounted EXCEPT !.country = countryCache["US"]]
            /\ pending = <<Request("getCountryTimeStats", [NoArgs EXCEPT !.iso2 = "US"],
                                   CdMountClosure)>>
            /\ last = Requested("getCountryTimeStats", [NoArgs EXCEPT !.iso2 = "US"])
       ELSE /\ cd = CdMounted
            /\ pending = <<Request("getCountryData", [NoArgs EXCEPT !.iso2 = "US"],
                                   CdMountClosure)>>
            /\ last = Requested("getCountryData", [NoArgs EXCEPT !.iso2 = "US"])

CdIssue(req) ==
    /\ Len(pending) < MaxPending
    /\ issued < MaxFetches
    /\ pending' = Append(pending, req)
    /\ issued' = issued + 1

(* Object identity.  React compares a state value with Object.is, so the   *)
(* effect on [timeStats] runs when setTimeStats is handed another object,  *)
(* whatever it holds.  timeStatsObj and initialObj name the objects the    *)
(* two state slots refer to, cacheObj[key] the object an entry of          *)
(* countryTimeStatsCache holds (0: null). A new object takes the least     *)
(* name no live reference uses.                                            *)
LiveObjs(st) ==
    {st.timeStatsObj, st.initialObj} \cup {st.cacheObj[key] : key \in DOMAIN st.cacheObj}
FreshObj(live) ==
    CHOOSE n \in 1..(Cardinality(live) + 1) :
        n \notin live /\ \A m \in 1..(n - 1) : m \in live

\* Variant of the step below without the effect on [timeStats].
CdWithTimeStatsKeepingPage(st, value, obj) ==
    [st EXCEPT !.timeStats = value, !.timeStatsObj = obj]

\* setTimeStats(value), and the effect on [timeStats] that resets the page
CdWithTimeStats(st, value, obj) ==
    [st EXCEPT !.timeStats = value, !.timeStatsObj = obj,
               !.currentPage = IF obj # st.timeStatsObj THEN 1 ELSE @]

\* fetchData from the time stats on. cache is countryTimeStatsCache as
\* getCountryTimeStats left it, key the key of the call, rest the queue without
\* the request that settled. The object handed over is the one the cache
\* holds, so what fetchData assigns to its fields shows in the cache. obj
\* names the object getCountryTimeStats returned.
CdAfterTimeStats(st, k, res, obj, cache, key, rest) ==
    LET processed == IF IsNullish(res.value) THEN ZeroCountryTimeStats  \* TypeError, caught
                     ELSE ProcessedTimeStats(res.value)
        processedObj == IF IsNullish(res.value) THEN FreshObj(LiveObjs(st) \cup {obj})
                        ELSE obj
        shown == CdWithTimeStats(st, processed, processedObj)
    IN /\ cd' = [shown EXCEPT !.initialTimeStats = IF k.isInitialFetch THEN processed ELSE @,
                              !.initialObj = IF k.isInitialFetch THEN processedObj ELSE @,
                              !.loading = FALSE, !.isSearching = FALSE]
       /\ countryTimeStatsCache' =
             IF res.stored /\ ~IsNullish(res.value)
             THEN [cache EXCEPT ![key].data = processed]
             ELSE cache
       /\ pending' = rest
       /\ UNCHANGED issued

\* fetchData from the country data on.
CdAfterCountryData(st, k, countryData, rest) ==
    IF ~Truthy(countryData)
    THEN /\ cd' = [st EXCEPT !.error = Message(CountryNotFound), !.loading = FALSE,
                             !.isSearching = FALSE]
         /\ pending' = rest
         /\ UNCHANGED <<issued, countryTimeStatsCache>>
    ELSE LET args == [iso2 |-> k.iso2, startDate |-> formatDateForAPI(k.startDate, FALSE),
                      endDate |-> formatDateForAPI(k.endDate, TRUE)]
             withCountry == [st EXCEPT !.country = countryData]
         IN IF TimeStatsCacheValid(KeyOf(args))
            THEN /\ CdAfterTimeStats(withCountry, k,
                        ReturnedAndStored(countryTimeStatsCache[KeyOf(args)].data),
                        st.cacheObj[KeyOf(args)],
                        countryTimeStatsCache, KeyOf(args), rest)
                 /\ last' = Hit("getCountryTimeStats", args,
                                countryTimeStatsCache[KeyOf(args)].data)
            ELSE /\ Len(rest) < MaxPending /\ issued < MaxFetches
                 /\ pending' = Append(rest, Request("getCountryTimeStats", args, k))
                 /\ issued' = issued + 1
                 /\ cd' = withCountry
                 /\ last' = Requested("getCountryTimeStats", args)
                 /\ UNCHANGED countryTimeStatsCache

\* fetchData(isInitialFetch) of the render with iso2 and the dates of cd, up to
\* its first await that waits for the network; st holds the updates queued so far.
CdFetchData(st, iso2, isInitialFetch) ==
    LET k == [who |-> "CountryDetail", isInitialFetch |-> isInitialFetch, iso2 |-> iso2,
              startDate |-> cd.startDate, endDate |-> cd.endDate]
        started == [st EXCEPT !.loading = TRUE, !.error = Unset,
                              !.selected = <<[iso2 |-> iso2,
                                              startDate |-> formatDateForAPI(cd.startDate, FALSE),
                                              endDate |-> formatDateForAPI(cd.endDate, TRUE)]>>]
    IN IF CountryCacheValid(iso2)
       THEN /\ CdAfterCountryData(started, k, CountryCacheAt(iso2), pending)
            /\ (~Truthy(CountryCacheAt(iso2))) => UNCHANGED last
       ELSE /\ CdIssue(Request("getCountryData", [NoArgs EXCEPT !.iso2 = iso2], k))
            /\ cd' = started
            /\ last' = Requested("getCountryData", [NoArgs EXCEPT !.iso2 = iso2])
            /\ UNCHANGED countryTimeStatsCache

CdUnchanged ==
    UNCHANGED <<now, driver, cachedGlobalStats, lastFetchTime, cachedTopCountries,
                lastSuccessAt, tc, sa, pg, ix, localStorage, dd, wm>>

\* The route parameter changes: the effect on [iso2] runs fetchData(true).
CdRoute ==
    /\ driver = "CountryDetail"
    /\ \E iso2 \in Iso2s :
          /\ iso2 # cd.iso2
          /\ CdFetchData([cd EXCEPT !.iso2 = iso2], iso2, TRUE)
    /\ UNCHANGED countryCache
    /\ CdUnchanged

\* The page with the date pickers and buttons is rendered.
CdControlsShown ==
    /\ ~(cd.loading /\ ~cd.isSearching)
    /\ cd.error # Message(CountryNotFound)
    /\ Truthy(cd.country)

CdHandleStartDateChange ==
    /\ driver = "CountryDetail" /\ CdControlsShown
    /\ \E date \in OptionalDates :
          /\ date # cd.startDate
          /\ cd' = [cd EXCEPT !.startDate = date,
                              !.dateError = IF IsSet(date) /\ IsSet(cd.endDate)
                                            THEN validateDates(date, cd.endDate) ELSE @]
    /\ UNCHANGED <<pending, issued, last, serviceVars>>
    /\ CdUnchanged

CdHandleEndDateChange ==
    /\ driver = "CountryDetail" /\ CdControlsShown
    /\ \E date \in OptionalDates :
          /\ date # cd.endDate
          /\ cd' = [cd EXCEPT !.endDate = date,
                              !.dateError = IF IsSet(cd.startDate) /\ IsSet(date)
                                            THEN validateDates(cd.startDate, date) ELSE @]
    /\ UNCHANGED <<pending, issued, last, serviceVars>>
    /\ CdUnchanged

\* The Search button (disabled while dateError is set or loading)
CdHandleSearch ==
    /\ driver = "CountryDetail" /\ CdControlsShown
    /\ cd.dateError = Unset /\ ~cd.loading
    /\ LET dateError == validateDates(cd.startDate, cd.endDate)
       IN IF dateError # Unset
          THEN /\ cd' = [cd EXCEPT !.dateError = dateError]
               /\ UNCHANGED <<pending, issued, last, countryTimeStatsCache>>
          ELSE CdFetchData([cd EXCEPT !.dateError = Unset, !.isSearching = TRUE],
                           cd.iso2, FALSE)
    /\ UNCHANGED countryCache
    /\ CdUnchanged

\* The Reset button (shown while a date is set, disabled while loading)
CdHandleReset ==
    /\ driver = "CountryDetail" /\ CdControlsShown
    /\ (IsSet(cd.startDate) \/ IsSet(cd.endDate)) /\ ~cd.loading
    /\ LET cleared == [cd EXCEPT !.startDate = NoDate, !.endDate = NoDate,
                                 !.dateError = Unset, !.selected = <<>>]
       IN cd' = IF Truthy(cd.initialTimeStats)
                THEN CdWithTimeStats(cleared, cd.initialTimeStats, cd.initialObj)
                ELSE cleared
    /\ UNCHANGED <<pending, issued, last, serviceVars>>
    /\ CdUnchanged

\* The country request settles and fetchData resumes.
CdSettleCountryData ==
    /\ driver = "CountryDetail"
    /\ \E i \in DOMAIN pending, out \in Outcomes :
          LET req == pending[i]
          IN /\ req.fn = "getCountryData"
             /\ \E data \in CountryPayloads(req.args.iso2, now) :
                   LET res == GetCountryDataResult(out, data)
                   IN /\ StoreCountryData(req.args.iso2, res)
                      /\ CdAfterCountryData(cd, req.k, res.value, RemoveAt(pending, i))
                      /\ (~Truthy(res.value)) =>
                            last' = Settled("getCountryData", req.args, res, out)
                                       @@ [status |-> out.status]
    /\ CdUnchanged

\* The time-stats request settles and fetchData resumes.
CdSettleTimeStatsWith(outcomes) ==
    /\ driver = "CountryDetail"
    /\ \E i \in DOMAIN pending, out \in outcomes :
          LET req == pending[i]
          IN /\ req.fn = "getCountryTimeStats"
             /\ \E data \in TimeStatsPayloads(req.args, now, TimeStatsBodies) :
                   LET res == GetCountryTimeStatsResult(out, data)
                       stored == IF res.stored
                                 THEN (KeyOf(req.args) :> CacheEntry(res.value))
                                          @@ countryTimeStatsCache
                                 ELSE countryTimeStatsCache
                       obj == FreshObj(LiveObjs(cd))
                       st == IF res.stored
                             THEN [cd EXCEPT !.cacheObj = (KeyOf(req.args) :> obj) @@ @]
                             ELSE cd
                   IN /\ CdAfterTimeStats(st, req.k, res, obj, stored, KeyOf(req.args),
                                          RemoveAt(pending, i))
                      /\ last' = Settled("getCountryTimeStats", req.args, res, out)
    /\ UNCHANGED countryCache
    /\ CdUnchanged

CdSettleTimeStats == CdSettleTimeStatsWith(Outcomes)

\* The same step when the time-stats endpoint either cannot be reached or
\* answers 200 with a well-formed body.
PlainOutcomes == {NetworkError, HttpResponse(200, "ok")}
CdSettleTimeStatsPlain == CdSettleTimeStatsWith(PlainOutcomes)

\* The previous and next buttons under the article list
CdHandlePageChange ==
    /\ driver = "CountryDetail" /\ CdControlsShown
    /\ cd.timeStats.t = "object" /\ cd.timeStats.articleCount > 0
    /\ Len(cd.timeStats.articles) > ARTICLES_PER_PAGE
    /\ \E newPage \in {cd.currentPage - 1, cd.currentPage + 1} :
          /\ newPage = cd.currentPage - 1 => cd.currentPage # 1
          /\ newPage = cd.currentPage + 1 =>
                cd.currentPage # getTotalPages(cd.timeStats.articles)
          /\ cd' = [cd EXCEPT !.currentPage = newPage]
    /\ UNCHANGED <<pending, issued, last, serviceVars>>
    /\ CdUnchanged

InitDetail ==
    /\ driver = "CountryDetail"
    /\ now = T0
    /\ cachedGlobalStats = Null
    /\ lastFetchTime = NoDate
    /\ countryTimeStatsCache = EmptyCache
    /\ cachedTopCountries = Null
    /\ lastSuccessAt = NoDate
    /\ InitCountryDetail
    /\ tc = Unmounted
    /\ sa = Unmounted
    /\ pg = Unmounted
    /\ ix = Unmounted
    /\ localStorage = EmptyCache
    /\ dd = [mounted |-> FALSE]
    /\ wm = [mounted |-> FALSE]

NextDetail ==
    \/ CdRoute
    \/ CdHandleStartDateChange
    \/ CdHandleEndDateChange
    \/ CdHandleSearch
    \/ CdHandleReset
    \/ CdSettleCountryData
    \/ CdSettleTimeStats
    \/ CdHandlePageChange

SpecDetail == InitDetail /\ [][NextDetail]_vars

\* The article list with its pagination controls is rendered.
CdArticleListDisplayed ==
    /\ CdControlsShown
    /\ cd.timeStats.t = "object" /\ cd.timeStats.articleCount > 0

\* A session of CountryDetail in which the user leaves the end date alone.
NextDetailPaging ==
    \/ CdRoute
    \/ CdHandleStartDateChange
    \/ CdHandleSearch
    \/ CdHandleReset
    \/ CdSettleCountryData
    \/ CdSettleTimeStatsPlain
    \/ CdHandlePageChange

SpecDetailPaging == InitDetail /\ [][NextDetailPaging]_vars

CdPageWithinPages ==
    CdArticleListDisplayed =>
        /\ 1 <= cd.currentPage
        /\ cd.currentPage <= getTotalPages(cd.timeStats.articles)

CdPageResetOnReplace ==
    cd'.timeStatsObj # cd.timeStatsObj => cd'.currentPage = 1

CdNotFoundShown ==
    /\ cd.mounted
    /\ ~(cd.loading /\ ~cd.isSearching)
    /\ cd.error = Message(CountryNotFound)

\* C15: CountryDetail shows the "Country Not Found" view only when the country
\* endpoint answered 404: while the view is shown on the settlement of a
\* country request, the response of that request had status 404.
C15_NotFoundOnlyOn404 ==
    (CdNotFoundShown /\ last.fn = "getCountryData" /\ last.event = "settled") =>
        last.status = 404

\* The Reset button is rendered and enabled.
CdResetEnabled ==
    /\ cd.mounted /\ CdControlsShown
    /\ (IsSet(cd.startDate) \/ IsSet(cd.endDate)) /\ ~cd.loading

\* C17: the stats Reset restores are those the initial fetch stored for the
\* current country, and they answer a query with no date range: whenever Reset
\* can be clicked, initialTimeStats is set and, when it is a response of the
\* server, that response answers a request for cd.iso2 without dates.
C17_ResetRestoresUndatedStats ==
    CdResetEnabled =>
        /\ Truthy(cd.initialTimeStats)
        /\ "request" \in DOMAIN cd.initialTimeStats =>
              /\ cd.initialTimeStats.request.startDate = NoDate
              /\ cd.initialTimeStats.request.endDate = NoDate
              /\ cd.initialTimeStats.request.iso2 = cd.iso2

\* C25: once every outstanding request has settled, the time stats on display
\* are the response to the selection made last: when they are a response of
\* the server, it answers the (iso2, startDate, endDate) of the fetchData
\* started last.  (After Reset, which displays stored stats without a
\* fetch, nothing is required here.)
C25_LatestSelectionDisplayed ==
    (/\ cd.mounted /\ pending = <<>> /\ CdControlsShown
     /\ cd.selected # <<>>
     /\ Truthy(cd.timeStats) /\ "request" \in DOMAIN cd.timeStats) =>
        cd.timeStats.request = cd.selected[1]

\* C6: every call CountryDetail makes to getCountryTimeStats passes a range
\* that is valid when the call is made: start <= end if both dates are passed,
\* and no passed date later than the time of the call.
C6_PassedRangeValid ==
    (cd.mounted /\ last.fn = "getCountryTimeStats" /\ last.event \in {"hit", "request"}) =>
        /\ (last.args.startDate # NoDate /\ last.args.endDate # NoDate) =>
              last.args.startDate[1] <= last.args.endDate[1]
        /\ last.args.startDate # NoDate => last.args.startDate[1] <= last.at
        /\ last.args.endDate # NoDate => last.args.endDate[1] <= last.at

\* C9: the object a cache entry of countryTimeStatsCache holds is what the
\* server sent, so that a cache hit returns the response unchanged.
C9_CachedResponseUnchanged ==
    \A key \in DOMAIN countryTimeStatsCache :
        countryTimeStatsCache[key].data = countryTimeStatsCache[key].sent

-----------------------------------------------------------------------------
(* pages/Index.tsx and the three view components it mounts when the        *)
(* dashboard renders: GlobalStatsCard, ContinentChart, TopCountriesChart.  *)
(* Each view keeps an entry in localStorage under its own key; its load    *)
(* step is the effect it runs when it mounts, in the step that renders the *)
(* dashboard.  A property that may be undefined is <<>> or <<v>>.          *)

DashboardFailed == "Failed to load dashboard data. Please try again later."

ContinentCacheKey == "continentDataCache"
TopCountriesCacheKey == "topCountriesCache"
GlobalStatsCacheKey == "globalStatsCache"
ViewCacheDuration == 5 * 60 * 1000
TopCountriesShown == 7

\* `obj.f`: undefined when the object has no such property.
Prop(obj, f) == IF f \in DOMAIN obj THEN <<obj[f]>> ELSE <<>>

\* JSON.parse(JSON.stringify(obj)): the properties that are undefined are left out.
JsonRoundTrip(obj, optional) ==
    [f \in {g \in DOMAIN obj : g \notin optional \/ obj[g] # <<>>} |-> obj[f]]

\* Variant of the check below that still uses an entry exactly five minutes old.
ViewCacheValidInclusive(storage, key) ==
    /\ key \in DOMAIN storage
    /\ now - storage[key].timestamp <= ViewCacheDuration

\* `cachedData` is set and `now - timestamp < CACHE_DURATION`
ViewCacheValid(storage, key) ==
    /\ key \in DOMAIN storage
    /\ now - storage[key].timestamp < ViewCacheDuration

Loaded(value, storage) == [value |-> value, storage |-> storage]

\* ContinentChart: cached continents to chart format.
ChartFormat(continents) ==
    [i \in DOMAIN continents |->
        [name |-> continents[i].name, value |-> continents[i].articles]]

ContinentsToCache(data) ==
    [i \in DOMAIN data |-> [name |-> data[i].name, articles |-> data[i].totalArticles]]

\* ContinentChart.loadData with the data prop, the chartData of the render
\* and the storage it finds.
ContinentChartLoadData(data, chartData, storage) ==
    IF ViewCacheValid(storage, ContinentCacheKey)
    THEN Loaded(ChartFormat(storage[ContinentCacheKey].continents), storage)
    ELSE IF Len(data) > 0
    THEN Loaded(ChartFormat(ContinentsToCache(data)),
                (ContinentCacheKey :>
                    [continents |-> ContinentsToCache(data), timestamp |-> now]) @@ storage)
    ELSE Loaded(chartData, storage)

\* TopCountriesChart: data.slice(0, 7).map(...)
NewChartData(data) ==
    LET shown == Slice(data, 0, TopCountriesShown)
    IN [i \in DOMAIN shown |->
          [name |-> Prop(shown[i], "name"), articles |-> shown[i].value,
           code |-> shown[i].code, averageTone |-> Prop(shown[i], "averageTone")]]

ChartDataAsStored(chartData) ==
    [i \in DOMAIN chartData |-> JsonRoundTrip(chartData[i], {"name", "averageTone"})]

\* TopCountriesChart.loadData
TopCountriesChartLoadData(data, storage) ==
    IF ViewCacheValid(storage, TopCountriesCacheKey)
    THEN Loaded(storage[TopCountriesCacheKey].data, storage)
    ELSE Loaded(NewChartData(data),
                (TopCountriesCacheKey :>
                    [data |-> ChartDataAsStored(NewChartData(data)), timestamp |-> now])
                  @@ storage)

\* `[...data.continents].sort((a, b) => b.totalArticles - a.totalArticles)[0]`:
\* the sort is stable, so it is the first continent no other one exceeds.
MostAffectedContinent(continents) ==
    IF continents = <<>> THEN [name |-> "N/A", totalArticles |-> 0]
    ELSE continents[CHOOSE i \in DOMAIN continents :
                       /\ \A j \in DOMAIN continents :
                             continents[j].totalArticles <= continents[i].totalArticles
                       /\ \A j \in 1..(i - 1) :
                             continents[j].totalArticles < continents[i].totalArticles]

\* `data.topCountries[0] || { name: "N/A", value: 0 }`
HighestConcentrationCountry(topCountries) ==
    IF topCountries = <<>> THEN [name |-> "N/A", value |-> 0] ELSE topCountries[1]

NewStats(data) ==
    [totalArticles |-> data.totalArticles,
     averagePerCountry |-> data.averagePerCountry,
     highestConcentrationCountry |->
        [name |-> Prop(HighestConcentrationCountry(data.topCountries), "name"),
         value |-> HighestConcentrationCountry(data.topCountries).value],
     mostAffectedContinent |->
        [name |-> MostAffectedContinent(data.continents).name,
         totalArticles |-> MostAffectedContinent(data.continents).totalArticles],
     timestamp |-> now]

StatsAsStored(stats) ==
    [stats EXCEPT !.highestConcentrationCountry = JsonRoundTrip(@, {"name"})]

\* GlobalStatsCard.loadData
GlobalStatsCardLoadData(data, storage) ==
    IF ViewCacheValid(storage, GlobalStatsCacheKey)
    THEN Loaded(storage[GlobalStatsCacheKey], storage)
    ELSE Loaded(NewStats(data), (GlobalStatsCacheKey :> StatsAsStored(NewStats(data))) @@ storage)

\* Index as it mounts; stats and averages are the two promises of
\* Promise.all (<<>>: not settled), failed records whether a request of
\* this load failed (history).
IxMounted ==
    [mounted |-> TRUE, loading |-> TRUE, error |-> Unset, globalStats |-> Null,
     dailyAverages |-> EmptyDailyAverages, stats |-> <<>>, averages |-> <<>>,
     failed |-> FALSE,
     GlobalStatsCard |-> Unmounted, ContinentChart |-> Unmounted,
     TopCountriesChart |-> Unmounted]

IndexPage == [who |-> "Index"]

\* The render that follows fetchData: the error view, or the dashboard,
\* whose three views mount and run their load steps in the order of the tree.
IxRender(st, storage) ==
    IF IsSet(st.error) \/ ~Truthy(st.globalStats)
    THEN [page |-> st, storage |-> storage]
    ELSE LET card == GlobalStatsCardLoadData(st.globalStats, storage)
             continent == ContinentChartLoadData(st.globalStats.continents, <<>>, card.storage)
             top == TopCountriesChartLoadData(st.globalStats.topCountries, continent.storage)
         IN [page |-> [st EXCEPT !.GlobalStatsCard = [mounted |-> TRUE, stats |-> card.value],
                                 !.ContinentChart = [mounted |-> TRUE, chartData |-> continent.value],
                                 !.TopCountriesChart = [mounted |-> TRUE, chartData |-> top.value]],
             storage |-> top.storage]

\* fetchData from `await Promise.all` on, once a promise has settled.
IxAfterSettled(st, storage) ==
    IF ~st.loading THEN [page |-> st, storage |-> storage]
    ELSE IF \/ IsSet(st.stats) /\ st.stats[1].threw
            \/ IsSet(st.averages) /\ st.averages[1].threw
    THEN IxRender([st EXCEPT !.error = Message(DashboardFailed), !.loading = FALSE], storage)
    ELSE IF IsSet(st.stats) /\ IsSet(st.averages)
    THEN IxRender([st EXCEPT !.globalStats = st.stats[1].value,
                             !.dailyAverages = st.averages[1].value,
                             !.error = Unset, !.loading = FALSE], storage)
    ELSE [page |-> st, storage |-> storage]

\* Index mounts and its effect calls fetchData: getGlobalStats() and
\* getDailyAverages(), up to the awaits.
IxFetchData(cacheValid, cached) ==
    /\ pending = <<>>
    /\ issued + 2 <= 2 * MaxLoads
    /\ IF cacheValid
       THEN /\ ix' = [IxMounted EXCEPT !.stats = <<Returned(cached)>>]
            /\ pending' = <<Request("getDailyAverages", NoArgs, IndexPage)>>
            /\ issued' = issued + 1
       ELSE /\ ix' = IxMounted
            /\ pending' = <<Request("getGlobalStats", NoArgs, IndexPage),
                            Request("getDailyAverages", NoArgs, IndexPage)>>
            /\ issued' = issued + 2
    /\ last' = Requested("getDailyAverages", NoArgs)
    /\ UNCHANGED <<now, driver, lastSuccessAt, tc, sa, cd, pg, localStorage, dd, wm>>

\* The router shows "/" in a document that is already loaded.
IxNavigate ==
    /\ driver = "Index"
    /\ IxFetchData(GlobalStatsCacheValid, cachedGlobalStats)
    /\ UNCHANGED serviceVars

\* The browser loads the document anew, as window.location.reload() does:
\* the module state of dataService.ts starts over, localStorage stays.
IxReload ==
    /\ driver = "Index"
    /\ IxFetchData(FALSE, Null)
    /\ cachedGlobalStats' = Null
    /\ lastFetchTime' = NoDate
    /\ countryCache' = EmptyCache
    /\ countryTimeStatsCache' = EmptyCache
    /\ cachedTopCountries' = Null

\* The country lists the global-stats endpoint sends while Index is open:
\* those above, and one longer than TopCountriesChart shows.
IndexCountryLists ==
    CountryLists \cup
        { [i \in 1..(TopCountriesShown + 1) |-> [code |-> "FR", value |-> 10 - i]] }

IxSettleGlobalStats ==
    /\ \E i \in DOMAIN pending, out \in Outcomes,
          data \in GlobalStatsPayloadsOf(IndexCountryLists, now) :
          /\ pending[i].fn = "getGlobalStats" /\ pending[i].k = IndexPage
          /\ LET res == GetGlobalStatsResult(out, data)
                 after == IxAfterSettled(
                             [ix EXCEPT !.stats = <<res>>,
                                        !.failed = @ \/ Fails("getGlobalStats", out)],
                             localStorage)
             IN /\ StoreGlobalStats(res)
                /\ last' = Settled("getGlobalStats", NoArgs, res, out)
                /\ ix' = after.page
                /\ localStorage' = after.storage
          /\ lastSuccessAt' = IF Successful(out) THEN DateOf(now) ELSE lastSuccessAt
          /\ pending' = RemoveAt(pending, i)
    /\ UNCHANGED <<now, driver, issued, countryCache, countryTimeStatsCache,
                   cachedTopCountries, tc, sa, cd, pg, dd, wm>>

IxSettleDailyAverages ==
    /\ \E i \in DOMAIN pending, out \in Outcomes, data \in DailyAveragesPayloads(now) :
          /\ pending[i].fn = "getDailyAverages" /\ pending[i].k = IndexPage
          /\ LET res == GetDailyAveragesResult(out, data)
                 after == IxAfterSettled(
                             [ix EXCEPT !.averages = <<res>>,
                                        !.failed = @ \/ Fails("getDailyAverages", out)],
                             localStorage)
             IN /\ last' = Settled("getDailyAverages", NoArgs, res, out)
                /\ ix' = after.page
                /\ localStorage' = after.storage
          /\ pending' = RemoveAt(pending, i)
    /\ UNCHANGED <<now, driver, issued, serviceVars, lastSuccessAt, tc, sa, cd, pg, dd, wm>>

InitIndex ==
    /\ driver = "Index"
    /\ InitService
    /\ tc = Unmounted
    /\ sa = Unmounted
    /\ cd = Unmounted
    /\ pg = Unmounted
    /\ ix = Unmounted
    /\ localStorage = EmptyCache
    /\ dd = [mounted |-> FALSE]
    /\ wm = [mounted |-> FALSE]

NextIndex ==
    \/ Tick
    \/ IxNavigate
    \/ IxReload
    \/ IxSettleGlobalStats
    \/ IxSettleDailyAverages

SpecIndex == InitIndex /\ [][NextIndex]_vars

(* Properties of the Index page and its views, checked under SpecIndex.     *)

\* The step in which fetchData ends and the dashboard renders: the three
\* views mount and run their load steps on the storage of the state before.
IxDashboardRendered ==
    /\ ix.mounted /\ ix.loading
    /\ ~ix'.loading /\ ix'.GlobalStatsCard.mounted

\* An entry under the key, written less than five minutes before now.
YoungEntry(key) ==
    /\ key \in DOMAIN localStorage
    /\ now - localStorage[key].timestamp < 300000

EntryKept(key) == key \in DOMAIN localStorage' /\ localStorage'[key] = localStorage[key]

\* C18: when a view runs its load step and finds an entry under its key that
\* is younger than five minutes, it displays the cached value and leaves the
\* entry as it is, whatever its data prop; with no entry, or one five minutes
\* old or older, it displays the value derived from its data prop.
C18_ViewsRenderCachedWithinTtl ==
    [][IxDashboardRendered =>
        /\ IF YoungEntry(GlobalStatsCacheKey)
           THEN /\ ix'.GlobalStatsCard.stats = localStorage[GlobalStatsCacheKey]
                /\ EntryKept(GlobalStatsCacheKey)
           ELSE ix'.GlobalStatsCard.stats = NewStats(ix'.globalStats)
        /\ IF YoungEntry(ContinentCacheKey)
           THEN /\ ix'.ContinentChart.chartData =
                      ChartFormat(localStorage[ContinentCacheKey].continents)
                /\ EntryKept(ContinentCacheKey)
           ELSE ix'.ContinentChart.chartData =
                    [i \in DOMAIN ix'.globalStats.continents |->
                        [name |-> ix'.globalStats.continents[i].name,
                         value |-> ix'.globalStats.continents[i].totalArticles]]
        /\ IF YoungEntry(TopCountriesCacheKey)
           THEN /\ ix'.TopCountriesChart.chartData = localStorage[TopCountriesCacheKey].data
                /\ EntryKept(TopCountriesCacheKey)
           ELSE ix'.TopCountriesChart.chartData = NewChartData(ix'.globalStats.topCountries)
    ]_vars

\* The dashboard shows the values cached by an earlier load although the
\* data props of this load are those of a failed request, and the clock has
\* reached the instant an entry written at the start turns five minutes old.
C18_Witness ==
    /\ ix.mounted /\ ~ix.loading /\ ix.GlobalStatsCard.mounted
    /\ ix.globalStats.topCountries = <<>>
    /\ Len(ix.TopCountriesChart.chartData) = TopCountriesShown
    /\ Len(ix.ContinentChart.chartData) > 0
    /\ ix.GlobalStatsCard.stats.totalArticles # ix.globalStats.totalArticles
    /\ now = T0 + ViewCacheDuration

\* C19: when a request of the dashboard load fails, Index shows the error
\* view with the message "Failed to load dashboard data. Please try again
\* later." instead of the dashboard.
C19_FailureShowsErrorView ==
    (ix.mounted /\ ~ix.loading /\ ix.failed) =>
        /\ ix.error = Message(DashboardFailed)
        /\ ~ix.GlobalStatsCard.mounted

-----------------------------------------------------------------------------
(* The de-duplication of articles by title on its own: the step of         *)
(* SourceAnalysis.fetchSources (either branch) and of                      *)
(* CountryDetail.fetchData, handed any response of up to MaxGroups groups  *)
(* of up to MaxRecent articles, or any list of up to MaxArticles articles, *)
(* over two titles; then handed what it produced.                          *)

DdSteps == {"getSourceAnalysis", "getGroupedSources", "getCountryTimeStats"}

DdTitles == {1, 2}

\* The lists of exactly len articles; the url of an article is base + its position.
ArticleLists(len, base) ==
    { [j \in 1..len |-> Article(titles[j], base + j)] : titles \in [1..len -> DdTitles] }
ArticleListsUpTo(n, base) == UNION { ArticleLists(len, base) : len \in 0..n }

\* What each article list of a response is: recentArticles per group, or articles.
DdArticleLists(step) ==
    IF step = "getCountryTimeStats" THEN ArticleLists(MaxArticles, 0) \cup ArticleListsUpTo(2, 0)
    ELSE UNION { { [i \in 1..n |-> lists[i]] : lists \in [1..n -> ArticleListsUpTo(MaxRecent, 0)] }
                 : n \in 0..MaxGroups }

\* The response of the endpoint of the step carrying the articles.
DdResponse(step, articles) ==
    CASE step = "getSourceAnalysis" ->
            [i \in DOMAIN articles |->
                AnalysisItem(i, [j \in DOMAIN articles[i] |->
                                   Article(articles[i][j].title, MaxRecent * i + j)])]
      [] step = "getGroupedSources" ->
            [i \in DOMAIN articles |->
                Group(i, [j \in DOMAIN articles[i] |->
                            Article(articles[i][j].title, MaxRecent * i + j)])]
      [] OTHER ->
            [t |-> "object", articleCount |-> Len(articles), averageTone |-> 0,
             timelineData |-> <<>>, articles |-> articles]

\* The article lists of a response, or of what the step made of it.
DdArticlesOf(step, value) ==
    IF step = "getCountryTimeStats" THEN <<value.articles>>
    ELSE [i \in DOMAIN value |-> value[i].recentArticles]

\* The step: part_000 118-138, part_000 148-164, part_001 212-222.
DdProcessed(step, response) ==
    CASE step = "getSourceAnalysis" -> ConvertedData(response, "author")
      [] step = "getGroupedSources" -> UniqueRecentArticles(response, {})
      [] OTHER -> ProcessedTimeStats(response)

InitDedupe ==
    /\ driver = "deduplication"
    /\ InitService
    /\ tc = Unmounted
    /\ sa = Unmounted
    /\ cd = Unmounted
    /\ pg = Unmounted
    /\ ix = Unmounted
    /\ localStorage = EmptyCache
    /\ wm = Unmounted
    /\ \E step \in DdSteps : \E articles \in DdArticleLists(step) :
          dd = [mounted |-> TRUE, step |-> step, rounds |-> 0,
                response |-> DdResponse(step, articles),
                handed |-> <<>>, left |-> <<>>]

DdUnchanged ==
    UNCHANGED <<now, driver, pending, issued, serviceVars, last, lastSuccessAt,
                tc, sa, cd, pg, ix, localStorage, wm>>

\* The step processes the response.
DdProcess(step) ==
    /\ driver = "deduplication"
    /\ dd.step = step /\ dd.rounds = 0
    /\ dd' = [dd EXCEPT !.rounds = 1,
                        !.handed = DdArticlesOf(step, dd.response),
                        !.left = DdArticlesOf(step, DdProcessed(step, dd.response))]
    /\ DdUnchanged

DdSourceAnalysis == DdProcess("getSourceAnalysis")
DdGroupedSources == DdProcess("getGroupedSources")
DdCountryTimeStats == DdProcess("getCountryTimeStats")

\* The step processes a response that carries the articles it left before.
DdProcessAgain ==
    /\ driver = "deduplication"
    /\ dd.rounds = 1
    /\ LET again == IF dd.step = "getCountryTimeStats"
                    THEN [dd.response EXCEPT !.articles = dd.left[1]]
                    ELSE [i \in DOMAIN dd.response |->
                            [dd.response[i] EXCEPT !.recentArticles = dd.left[i]]]
       IN dd' = [dd EXCEPT !.rounds = 2,
                           !.handed = DdArticlesOf(dd.step, again),
                           !.left = DdArticlesOf(dd.step, DdProcessed(dd.step, again))]
    /\ DdUnchanged

NextDedupe ==
    \/ DdSourceAnalysis
    \/ DdGroupedSources
    \/ DdCountryTimeStats
    \/ DdProcessAgain

SpecDedupe == InitDedupe /\ [][NextDedupe]_vars

RECURSIVE Flattened(_)
\* The lists one after the other: group order, then article order.
Flattened(lists) == IF lists = <<>> THEN <<>> ELSE Head(lists) \o Flattened(Tail(lists))

\* The positions of a list that hold the first article of their title.
FirstPositions(list) ==
    { k \in DOMAIN list : \A earlier \in 1..(k - 1) : list[earlier].title # list[k].title }

\* C20: after the step has processed a response, each title occurs at most
\* once among the articles it left (all groups taken together), the articles
\* left are the first occurrences of their titles in response order, in that
\* order and each in the group it came in; and the step leaves a list that is
\* already de-duplicated as it is.
C20_DedupeByTitle ==
    (dd.mounted /\ dd.rounds > 0) =>
        LET handed == Flattened(dd.handed)
            left == Flattened(dd.left)
            first == FirstPositions(handed)
        IN /\ \A i, j \in DOMAIN left : left[i].title = left[j].title => i = j
           /\ Len(left) = Cardinality(first)
           /\ \A n \in DOMAIN left :
                 left[n] = handed[CHOOSE k \in first :
                                     Cardinality({m \in first : m <= k}) = n]
           /\ Len(dd.left) = Len(dd.handed)
           /\ \A g \in DOMAIN dd.left :
                 \A n \in DOMAIN dd.left[g] :
                    \E k \in DOMAIN dd.handed[g] : dd.handed[g][k] = dd.left[g][n]
           /\ dd.rounds = 2 => dd.left = dd.handed

\* A response of two groups that repeat a title within a group and across
\* the groups has been processed, and then processed again.
C20_Witness ==
    /\ dd.mounted /\ dd.rounds = 2 /\ dd.step = "getSourceAnalysis"
    /\ Len(dd.response) = 2
    /\ Len(dd.response[1].recentArticles) = 2
    /\ dd.response[1].recentArticles[1].title = dd.response[1].recentArticles[2].title
    /\ Len(dd.response[2].recentArticles) = 2
    /\ dd.response[2].recentArticles[1].title = dd.response[1].recentArticles[1].title
    /\ Len(Flattened(dd.left)) = 2

-----------------------------------------------------------------------------
(* components/WorldMap.tsx: the rotation of the globe.  The handlers are   *)
(* those the map's load event installs; userInteracting and spinInterval   *)
(* are the variables of that closure.  Time passes in steps of             *)
(* SPIN_INTERVAL: an active interval calls spinGlobe at every step, and a  *)
(* timeout holds the steps left until it runs.                             *)

ResumeSteps == RESUME_DELAY \div SPIN_INTERVAL
Zooms == {SPIN_ZOOM - 1, SPIN_ZOOM}

\* The state the load handler leaves: the interval set, nobody interacting.
WmLoaded ==
    [mounted |-> TRUE, userInteracting |-> FALSE, spinInterval |-> TRUE,
     timeouts |-> <<>>, zoom |-> SPIN_ZOOM - 1, lng |-> 0,
     mouseDown |-> FALSE, touching |-> FALSE, turned |-> FALSE]

WmUnchanged ==
    UNCHANGED <<now, driver, pending, issued, serviceVars, last, lastSuccessAt,
                tc, sa, cd, pg, ix, localStorage, dd>>

\* The body of the mousedown and touchstart handlers.
WmInteractionStarted(st) ==
    [st EXCEPT !.userInteracting = TRUE, !.spinInterval = FALSE]

\* The body of the mouseup and touchend handlers: setTimeout(..., 3000).
WmInteractionEnded(st) ==
    [st EXCEPT !.timeouts = Append(@, ResumeSteps)]

WmMouseDown ==
    /\ driver = "WorldMap" /\ wm.mounted
    /\ ~wm.mouseDown /\ ~wm.touching
    /\ wm' = [WmInteractionStarted(wm) EXCEPT !.mouseDown = TRUE, !.turned = FALSE]
    /\ WmUnchanged

WmMouseUp ==
    /\ driver = "WorldMap" /\ wm.mounted
    /\ wm.mouseDown
    /\ Len(wm.timeouts) < MaxTimers
    /\ wm' = [WmInteractionEnded(wm) EXCEPT !.mouseDown = FALSE, !.turned = FALSE]
    /\ WmUnchanged

WmTouchStart ==
    /\ driver = "WorldMap" /\ wm.mounted
    /\ ~wm.mouseDown /\ ~wm.touching
    /\ wm' = [WmInteractionStarted(wm) EXCEPT !.touching = TRUE, !.turned = FALSE]
    /\ WmUnchanged

WmTouchEnd ==
    /\ driver = "WorldMap" /\ wm.mounted
    /\ wm.touching
    /\ Len(wm.timeouts) < MaxTimers
    /\ wm' = [WmInteractionEnded(wm) EXCEPT !.touching = FALSE, !.turned = FALSE]
    /\ WmUnchanged

\* The user zooms with the wheel or the zoom control: no press, no touch.
WmZoom ==
    /\ driver = "WorldMap" /\ wm.mounted
    /\ \E zoom \in Zooms :
          /\ zoom # wm.zoom
          /\ wm' = [wm EXCEPT !.zoom = zoom, !.turned = FALSE]
    /\ WmUnchanged

\* The timeouts that are due run: `userInteracting = false`.
WmTimeoutsRun(st) ==
    LET left == [i \in DOMAIN st.timeouts |-> st.timeouts[i] - 1]
        due == {i \in DOMAIN left : left[i] = 0}
    IN [st EXCEPT !.timeouts = SubSeq(left, Cardinality(due) + 1, Len(left)),
                  !.userInteracting = IF due # {} THEN FALSE ELSE @]

\* spinGlobe, as the interval calls it; turned records whether it called easeTo.
spinGlobe(st) ==
    IF ~st.spinInterval \/ st.userInteracting THEN [st EXCEPT !.turned = FALSE]
    ELSE IF st.zoom < SPIN_ZOOM
    THEN [st EXCEPT !.lng = (@ + 1) % (MaxLng + 1), !.turned = TRUE]
    ELSE [st EXCEPT !.turned = FALSE]

\* SPIN_INTERVAL ms pass: the timers that are due run, in either order.
WmAdvance ==
    /\ driver = "WorldMap" /\ wm.mounted
    /\ \E timeoutsFirst \in BOOLEAN :
          wm' = IF timeoutsFirst THEN spinGlobe(WmTimeoutsRun(wm))
                ELSE WmTimeoutsRun(spinGlobe(wm))
    /\ WmUnchanged

InitWorldMap ==
    /\ driver = "WorldMap"
    /\ InitService
    /\ tc = Unmounted
    /\ sa = Unmounted
    /\ cd = Unmounted
    /\ pg = Unmounted
    /\ ix = Unmounted
    /\ localStorage = EmptyCache
    /\ dd = Unmounted
    /\ wm = WmLoaded

NextWorldMap ==
    \/ WmMouseDown
    \/ WmMouseUp
    \/ WmTouchStart
    \/ WmTouchEnd
    \/ WmZoom
    \/ WmAdvance

SpecWorldMap == InitWorldMap /\ [][NextWorldMap]_vars

\* Time passes: the browser keeps running the timers.
SpecWorldMapLive == SpecWorldMap /\ WF_vars(WmAdvance)

WmIdle == wm.mounted /\ ~wm.mouseDown /\ ~wm.touching /\ wm.zoom < SPIN_ZOOM

\* C21: once the user has released the mouse or ended the touch, with the
\* zoom below 3, the globe turns again: rotation resumes unless the user
\* interacts or zooms in again first.
C21_RotationResumes == WmIdle ~> (wm.turned \/ ~WmIdle)

====
